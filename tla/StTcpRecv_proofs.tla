-------------------------- MODULE StTcpRecv_proofs --------------------------
(***************************************************************************)
(* The receiving half of a wrapper socket, for every set of threads and of *)
(* messages, every capacity and both settings of                           *)
(* FORCE_TO_USE_MSG_RECV_BUFFER.                                           *)
(***************************************************************************)
EXTENDS StTcpRecv, SequenceTheorems, TLAPS

\* TypeOK in two parts, as the provers take sequences on their own.
BuffersOK ==
    /\ temp_msg_buffer \in Seq(Msgs)
    /\ recv_msg_buffer \in Seq(Msgs)
    /\ arrived \in Seq(Msgs)
    /\ handled \in Seq(Msgs)
    /\ discarded \in Seq(Msgs)

OthersOK ==
    /\ last_dispatch_msg \in Msgs \cup {NoMsg}
    /\ dispatching \in BOOLEAN
    /\ suspend_dispatch_msg_ \in BOOLEAN
    /\ posting \in BOOLEAN
    /\ handler \in {"none", "posted", "accepted", "refused"}
    /\ handler \in {"posted", "refused"} => last_dispatch_msg \in Msgs
    /\ read \in {"none", "io", "data", "err"}
    /\ receiver \in {"none", "loop", "dispatch", "end"}
    /\ iter \in Nat /\ iter > 0
    /\ dispatch \in BOOLEAN
    /\ armed \subseteq TimerIds
    /\ expired \subseteq TimerIds
    /\ pc \in [Threads -> {"idle", "do_dispatch_msg"}]
    /\ open \in BOOLEAN
    /\ close_state \in {0, 1}

\* TypeOK, in two parts.
LEMMA TypeParts == TypeOK <=> BuffersOK /\ OthersOK
  BY Zenon DEF TypeOK, BuffersOK, OthersOK

\* Taking the front of a buffer gives a message and leaves a buffer.
LEMMA FrontOfBuffer ==
    ASSUME NEW S, NEW q \in Seq(S), q # <<>>
    PROVE  Head(q) \in S /\ Tail(q) \in Seq(S)
  OBVIOUS

\* A part of a buffer is a buffer.
LEMMA PartOfBuffer ==
    ASSUME NEW S, NEW q \in Seq(S), NEW a \in Nat \ {0}, NEW b \in 0..Len(q)
    PROVE  SubSeq(q, a, b) \in Seq(S)
  OBVIOUS

\* What a read brings is a sequence of messages.
LEMMA BatchType == \A b \in Batches : b \in Seq(Msgs)
<1> SUFFICES ASSUME NEW b \in Batches PROVE b \in Seq(Msgs)
  OBVIOUS
<1>1. PICK n \in 0..MaxBatch : b \in [1..n -> Msgs]
  BY RecvAssumption DEF Batches
<1>2. n \in Nat
  BY <1>1, RecvAssumption
<1> QED
  BY <1>1, <1>2

\* The part of temp_msg_buffer that splice_helper moves.
LEMMA SpliceType ==
    ASSUME TypeOK
    PROVE  /\ SpliceSize \in 0..Len(temp_msg_buffer)
           /\ SubSeq(temp_msg_buffer, 1, SpliceSize) \in Seq(Msgs)
           /\ SubSeq(temp_msg_buffer, SpliceSize + 1, Len(temp_msg_buffer)) \in Seq(Msgs)
<1>1. /\ Len(recv_msg_buffer) \in Nat /\ Len(temp_msg_buffer) \in Nat
      /\ temp_msg_buffer \in Seq(Msgs)
  BY DEF TypeOK
<1>2. SpliceSize \in 0..Len(temp_msg_buffer)
  BY <1>1, RecvAssumption DEF SpliceSize
<1>3. SpliceSize + 1 \in Nat \ {0} /\ Len(temp_msg_buffer) \in 0..Len(temp_msg_buffer)
  BY <1>1, <1>2
<1> QED
  BY <1>1, <1>2, <1>3, PartOfBuffer

\* The types of what do_dispatch_msg assigns.
DispatchTyped ==
    /\ recv_msg_buffer' \in Seq(Msgs) /\ temp_msg_buffer' \in Seq(Msgs)
    /\ handled' \in Seq(Msgs)
    /\ dispatching' \in BOOLEAN
    /\ last_dispatch_msg' \in Msgs \cup {NoMsg}
    /\ handler' \in {"none", "posted", "accepted", "refused"}
    /\ handler' \in {"posted", "refused"} => last_dispatch_msg' \in Msgs
    /\ armed' \subseteq TimerIds

\* do_dispatch_msg keeps the types of what it assigns.
LEMMA DoDispatchType ==
    ASSUME TypeOK, NEW recv \in Seq(Msgs), NEW temp \in Seq(Msgs), NEW busy \in BOOLEAN,
           NEW last \in Msgs \cup {NoMsg}, NEW state \in {"none", "posted", "accepted", "refused"},
           state \in {"posted", "refused"} => last \in Msgs,
           do_dispatch_msg(recv, temp, busy, last, state)
    PROVE  DispatchTyped
<1>1. recv # <<>> => Head(recv) \in Msgs /\ Tail(recv) \in Seq(Msgs)
  BY FrontOfBuffer
<1>2. handled \in Seq(Msgs) /\ armed \subseteq TimerIds /\ 1 \in TimerIds
  BY DEF TypeOK, TimerIds
<1>3. CASE suspend_dispatch_msg_ \/ posting \/ busy \/ (open /\ recv = <<>>)
  BY <1>2, <1>3 DEF do_dispatch_msg, DispatchTyped
<1>4. CASE ~suspend_dispatch_msg_ /\ ~posting /\ ~busy /\ open /\ recv # <<>>
  BY <1>1, <1>2, <1>4 DEF do_dispatch_msg, DispatchTyped
<1>5. CASE ~suspend_dispatch_msg_ /\ ~posting /\ ~busy /\ ~open
  <2>1. handled \o recv \o (IF FORCE THEN temp ELSE <<>>) \in Seq(Msgs)
    BY <1>2
  <2>2. <<>> \in Seq(Msgs) /\ (IF FORCE THEN <<>> ELSE temp) \in Seq(Msgs)
    OBVIOUS
  <2> QED
    BY <1>2, <1>5, <2>1, <2>2 DEF do_dispatch_msg, DispatchTyped
<1> QED
  BY <1>3, <1>4, <1>5

\* The same for the call on the buffers as they are.
LEMMA DispatchNowType ==
    ASSUME TypeOK, dispatch_now
    PROVE  DispatchTyped
<1>1. /\ recv_msg_buffer \in Seq(Msgs) /\ temp_msg_buffer \in Seq(Msgs) /\ dispatching \in BOOLEAN
      /\ last_dispatch_msg \in Msgs \cup {NoMsg}
      /\ handler \in {"none", "posted", "accepted", "refused"}
      /\ handler \in {"posted", "refused"} => last_dispatch_msg \in Msgs
  BY DEF TypeOK
<1> QED
  BY <1>1, DoDispatchType DEF dispatch_now

-----------------------------------------------------------------------------
\* Each step keeps the types of the variables.
LEMMA RecvTypeStep == TypeOK /\ [Next]_vars => TypeOK'
<1> SUFFICES ASSUME TypeOK, [Next]_vars PROVE BuffersOK' /\ OthersOK'
  BY TypeParts, Zenon DEF TypeOK, BuffersOK, OthersOK
<1> DEFINE Goal == BuffersOK' /\ OthersOK'
<1>0. BuffersOK /\ OthersOK
  BY TypeParts
<1> USE DEF bufferVars, receiveVars, timerVars, linkVars
<1>1. ASSUME NEW b \in Batches, recv_handler(b) PROVE Goal
  <2>1. BuffersOK'
    BY <1>0, <1>1, BatchType DEF recv_handler, BuffersOK
  <2>2. iter' \in Nat /\ iter' > 0 /\ dispatch' \in BOOLEAN /\ receiver' = "loop"
    <3>1. iter' = 1 /\ dispatch' = FALSE /\ receiver' = "loop"
      BY <1>1, Zenon DEF recv_handler, begin_dispatch_msg
    <3>2. iter' \in Nat /\ iter' > 0
      BY <3>1
    <3> QED
      BY <3>1, <3>2, Zenon
  <2>3. OthersOK'
    BY <1>0, <1>1, <2>2 DEF recv_handler, OthersOK
  <2> QED
    BY <2>1, <2>3
<1>2. CASE on_timer_0
  <2>1. BuffersOK'
    BY <1>0, <1>2 DEF on_timer_0, BuffersOK
  <2>2. iter' \in Nat /\ iter' > 0 /\ dispatch' \in BOOLEAN /\ receiver' = "loop"
    <3>1. iter' = 1 /\ dispatch' = FALSE /\ receiver' = "loop"
      BY <1>2, Zenon DEF on_timer_0, begin_dispatch_msg
    <3>2. iter' \in Nat /\ iter' > 0
      BY <3>1
    <3> QED
      BY <3>1, <3>2, Zenon
  <2>3. OthersOK'
    BY <1>0, <1>2, <2>2 DEF on_timer_0, OthersOK
  <2> QED
    BY <2>1, <2>3
<1>3. ASSUME Looping PROVE temp_msg_buffer[iter] \in Msgs /\ WithoutIter \in Seq(Msgs)
  <2>1. temp_msg_buffer \in Seq(Msgs) /\ Len(temp_msg_buffer) \in Nat /\ iter \in Nat /\ iter > 0
    BY <1>0 DEF BuffersOK, OthersOK
  <2>2. /\ iter \in 1..Len(temp_msg_buffer) /\ iter - 1 \in 0..Len(temp_msg_buffer)
        /\ iter + 1 \in Nat \ {0} /\ Len(temp_msg_buffer) \in 0..Len(temp_msg_buffer)
    BY <1>3, <2>1 DEF Looping
  <2>3. /\ SubSeq(temp_msg_buffer, 1, iter - 1) \in Seq(Msgs)
        /\ SubSeq(temp_msg_buffer, iter + 1, Len(temp_msg_buffer)) \in Seq(Msgs)
    BY <2>1, <2>2, PartOfBuffer
  <2> QED
    BY <2>1, <2>2, <2>3 DEF WithoutIter
<1>4. CASE on_msg_true
  <2>1. BuffersOK'
    BY <1>0, <1>3, <1>4 DEF on_msg_true, BuffersOK
  <2>2. OthersOK'
    BY <1>0, <1>4 DEF on_msg_true, OthersOK
  <2> QED
    BY <2>1, <2>2
<1>5. CASE on_msg_false
  <2> Looping /\ UNCHANGED <<arrived, handled, discarded>>
    BY <1>5 DEF on_msg_false
  <2>1. BuffersOK'
    <3>1. temp_msg_buffer[iter] \in Msgs /\ WithoutIter \in Seq(Msgs)
      BY <1>3
    <3>2. recv_msg_buffer \in Seq(Msgs)
      BY <1>0 DEF BuffersOK
    <3>3. Append(recv_msg_buffer, temp_msg_buffer[iter]) \in Seq(Msgs)
      BY <3>1, <3>2
    <3>4. \/ /\ recv_msg_buffer' = Append(recv_msg_buffer, temp_msg_buffer[iter])
             /\ temp_msg_buffer' = WithoutIter
          \/ UNCHANGED <<recv_msg_buffer, temp_msg_buffer>>
      BY <1>5 DEF on_msg_false
    <3> QED
      BY <1>0, <3>1, <3>3, <3>4 DEF BuffersOK
  <2>2. iter' \in Nat /\ iter' > 0 /\ dispatch' \in BOOLEAN
    <3>1. iter \in Nat /\ iter > 0 /\ dispatch \in BOOLEAN
      BY <1>0 DEF OthersOK
    <3>2. \/ dispatch' = TRUE /\ iter' = iter
          \/ iter' = iter + 1 /\ dispatch' = dispatch
      BY <1>5, Zenon DEF on_msg_false
    <3>3. iter' \in Nat /\ iter' > 0
      BY <3>1, <3>2
    <3>4. dispatch' \in BOOLEAN
      BY <3>1, <3>2, Zenon
    <3> QED
      BY <3>3, <3>4, Zenon
  <2>3. OthersOK'
    BY <1>0, <1>5, <2>2 DEF on_msg_false, OthersOK
  <2> QED
    BY <2>1, <2>3
<1>6. CASE loop_ends
  BY <1>0, <1>6 DEF loop_ends, BuffersOK, OthersOK
<1>7. CASE receiver_dispatches
  <2>1. DispatchTyped
    BY <1>7, DispatchNowType DEF receiver_dispatches
  <2> QED
    BY <1>0, <1>7, <2>1 DEF receiver_dispatches, DispatchTyped, BuffersOK, OthersOK
<1>8. CASE splice_and_dispatch
  <2>1. CASE SpliceSize = 0 /\ UNCHANGED <<bufferVars, armed, handled>>
    <3>1. BuffersOK'
      BY <1>0, <1>8, <2>1 DEF splice_and_dispatch, BuffersOK
    <3>2. OthersOK'
      BY <1>0, <1>8, <2>1 DEF splice_and_dispatch, OthersOK
    <3> QED
      BY <3>1, <3>2
  <2>2. CASE do_dispatch_msg(recv_msg_buffer \o SubSeq(temp_msg_buffer, 1, SpliceSize),
                             SubSeq(temp_msg_buffer, SpliceSize + 1, Len(temp_msg_buffer)),
                             dispatching, last_dispatch_msg, handler)
    <3>1. /\ recv_msg_buffer \o SubSeq(temp_msg_buffer, 1, SpliceSize) \in Seq(Msgs)
          /\ SubSeq(temp_msg_buffer, SpliceSize + 1, Len(temp_msg_buffer)) \in Seq(Msgs)
      BY <1>0, SpliceType DEF BuffersOK
    <3>2. /\ dispatching \in BOOLEAN /\ last_dispatch_msg \in Msgs \cup {NoMsg}
          /\ handler \in {"none", "posted", "accepted", "refused"}
          /\ handler \in {"posted", "refused"} => last_dispatch_msg \in Msgs
      BY <1>0 DEF OthersOK
    <3>3. DispatchTyped
      BY <2>2, <3>1, <3>2, DoDispatchType
    <3>4. /\ receiver' = "end"
          /\ UNCHANGED <<read, iter, dispatch, expired, linkVars, pc, arrived>>
      BY <1>8 DEF splice_and_dispatch
    <3>5. BuffersOK'
      BY <1>0, <3>3, <3>4 DEF DispatchTyped, BuffersOK
    <3>6. OthersOK'
      BY <1>0, <3>3, <3>4 DEF DispatchTyped, OthersOK
    <3> QED
      BY <3>5, <3>6
  <2> QED
    BY <1>8, <2>1, <2>2 DEF splice_and_dispatch
<1>9. CASE dispatch_msg_ends
  <2>1. BuffersOK'
    BY <1>0, <1>9 DEF dispatch_msg_ends, BuffersOK
  <2>2. read' \in {"none", "io", "data", "err"}
    BY <1>0, <1>9 DEF dispatch_msg_ends, OthersOK
  <2>3. armed' \subseteq TimerIds
    <3>1. armed' = armed \/ armed' = armed \cup {0}
      BY <1>9, Zenon DEF dispatch_msg_ends
    <3>2. armed \subseteq TimerIds
      BY <1>0, Zenon DEF OthersOK
    <3>3. 0 \in TimerIds
      BY DEF TimerIds
    <3> QED
      BY <3>1, <3>2, <3>3, Zenon
  <2>4. /\ receiver' = "none"
        /\ UNCHANGED <<bufferVars, iter, dispatch, expired, linkVars, pc>>
    BY <1>9 DEF dispatch_msg_ends
  <2>5. OthersOK'
    BY <1>0, <2>2, <2>3, <2>4 DEF OthersOK
  <2> QED
    BY <2>1, <2>5
<1>10. CASE on_msg_handle_true
  <2>1. BuffersOK'
    BY <1>0, <1>10 DEF on_msg_handle_true, BuffersOK, OthersOK
  <2>2. OthersOK'
    BY <1>0, <1>10 DEF on_msg_handle_true, OthersOK
  <2> QED
    BY <2>1, <2>2
<1>11. CASE on_msg_handle_false
  BY <1>0, <1>11 DEF on_msg_handle_false, BuffersOK, OthersOK
<1>12. CASE msg_handler_accepted
  <2>1. recv_msg_buffer \in Seq(Msgs) /\ temp_msg_buffer \in Seq(Msgs)
    BY <1>0 DEF BuffersOK
  <2>2. do_dispatch_msg(recv_msg_buffer, temp_msg_buffer, FALSE, NoMsg, "none")
    BY <1>12 DEF msg_handler_accepted
  <2>3. DispatchTyped
    BY <2>1, <2>2, DoDispatchType
  <2> QED
    BY <1>0, <1>12, <2>3 DEF msg_handler_accepted, DispatchTyped, BuffersOK, OthersOK
<1>13. CASE msg_handler_refused
  <2>1. BuffersOK'
    BY <1>0, <1>13 DEF msg_handler_refused, BuffersOK, OthersOK
  <2>2. OthersOK'
    BY <1>0, <1>13 DEF msg_handler_refused, OthersOK, TimerIds
  <2> QED
    BY <2>1, <2>2
<1>14. ASSUME NEW id \in TimerIds, on_timer_dispatch(id) PROVE Goal
  <2>1. DispatchTyped
    BY <1>14, DispatchNowType DEF on_timer_dispatch
  <2> QED
    BY <1>0, <1>14, <2>1 DEF on_timer_dispatch, DispatchTyped, BuffersOK, OthersOK
<1>15. ASSUME NEW t \in Threads, NEW s \in BOOLEAN, suspend_dispatch_msg(t, s) PROVE Goal
  BY <1>0, <1>15 DEF suspend_dispatch_msg, BuffersOK, OthersOK
<1>16. ASSUME NEW t \in Threads, thread_dispatches(t) PROVE Goal
  <2>1. DispatchTyped
    BY <1>16, DispatchNowType DEF thread_dispatches
  <2> QED
    BY <1>0, <1>16, <2>1 DEF thread_dispatches, DispatchTyped, BuffersOK, OthersOK
<1>17. ASSUME NEW t \in Threads, post_ends(t) PROVE Goal
  <2>1. BuffersOK'
    BY <1>0, <1>17 DEF post_ends, BuffersOK
  <2>2. pc' \in [Threads -> {"idle", "do_dispatch_msg"}]
    BY <1>0, <1>17 DEF post_ends, OthersOK
  <2>3. /\ posting' \in BOOLEAN
        /\ UNCHANGED <<bufferVars, receiveVars, timerVars, suspend_dispatch_msg_, open, close_state, discarded>>
    BY <1>17, Zenon DEF post_ends
  <2>4. OthersOK'
    BY <1>0, <2>2, <2>3 DEF OthersOK
  <2> QED
    BY <2>1, <2>4
<1>18. CASE post_begins
  BY <1>0, <1>18 DEF post_begins, BuffersOK, OthersOK
<1>19. CASE force_close
  BY <1>0, <1>19 DEF force_close, clean_up, BuffersOK, OthersOK
<1>20. CASE on_recv_error
  BY <1>0, <1>20 DEF on_recv_error, clean_up, BuffersOK, OthersOK
<1>20r. CASE reset
  <2>1. recv_msg_buffer' = <<>> /\ temp_msg_buffer' = <<>> /\ UNCHANGED <<arrived, handled>>
        /\ discarded' = discarded \o recv_msg_buffer \o temp_msg_buffer
    BY <1>20r, Zenon DEF reset
  <2>2. discarded \o recv_msg_buffer \o temp_msg_buffer \in Seq(Msgs) /\ <<>> \in Seq(Msgs)
    BY <1>0 DEF BuffersOK
  <2>3. BuffersOK'
    BY <1>0, <2>1, <2>2, Zenon DEF BuffersOK
  <2>4. /\ posting' = FALSE /\ dispatching' = FALSE /\ suspend_dispatch_msg_' = FALSE
        /\ UNCHANGED <<last_dispatch_msg, handler, receiveVars, timerVars, open, close_state, pc>>
    BY <1>20r, Zenon DEF reset
  <2>5. OthersOK'
    BY <1>0, <2>4 DEF OthersOK
  <2> QED
    BY <2>3, <2>5
<1>21. CASE data_arrives
  BY <1>0, <1>21 DEF data_arrives, BuffersOK, OthersOK
<1>22. CASE peer_closes
  BY <1>0, <1>22 DEF peer_closes, BuffersOK, OthersOK
<1>23. ASSUME NEW id \in TimerIds, timer_expires(id) PROVE Goal
  BY <1>0, <1>23 DEF timer_expires, BuffersOK, OthersOK
<1>24. CASE UNCHANGED vars
  BY <1>0, <1>24 DEF vars, BuffersOK, OthersOK
<1> HIDE DEF Goal
<1>25. ASSUME Receive PROVE Goal
  BY <1>1, <1>2, <1>4, <1>5, <1>6, <1>7, <1>8, <1>9, <1>25 DEF Receive, Goal
<1>26. ASSUME Dispatch PROVE Goal
  BY <1>10, <1>11, <1>12, <1>13, <1>14, <1>26 DEF Dispatch, Goal
<1>27. ASSUME NEW t \in Threads, Call(t) PROVE Goal
  BY <1>15, <1>16, <1>17, <1>27 DEF Call
<1>28. ASSUME Others PROVE Goal
  BY <1>18, <1>19, <1>20, <1>20r, <1>21, <1>22, <1>23, <1>28 DEF Others, Goal
<1> QED
  BY <1>24, <1>25, <1>26, <1>27, <1>28 DEF Next, Goal

(***************************************************************************)
(* Every variable of the receiving half keeps its type: a message that     *)
(* msg_handler offers or puts back is one that arrived, and the iterator   *)
(* of dispatch_msg stays a position.                                       *)
(***************************************************************************)
THEOREM RecvTypeCorrect == Spec => []TypeOK
<1>1. Init => TypeOK
  <2> SUFFICES ASSUME Init PROVE TypeOK
    OBVIOUS
  <2>1. /\ temp_msg_buffer \in Seq(Msgs) /\ recv_msg_buffer \in Seq(Msgs)
        /\ arrived \in Seq(Msgs) /\ handled \in Seq(Msgs) /\ discarded \in Seq(Msgs)
    BY DEF Init
  <2>2. pc \in [Threads -> {"idle", "do_dispatch_msg"}]
    BY DEF Init
  <2>3. iter \in Nat /\ iter > 0 /\ close_state \in {0, 1}
    BY DEF Init
  <2>4. BuffersOK
    BY <2>1 DEF BuffersOK
  <2>5. OthersOK
    BY <2>2, <2>3 DEF Init, OthersOK
  <2> QED
    BY <2>4, <2>5, TypeParts
<1>2. TypeOK /\ [Next]_vars => TypeOK'
  BY RecvTypeStep
<1> QED
  BY <1>1, <1>2, PTL DEF Spec

-----------------------------------------------------------------------------
\* do_dispatch_msg serves recv_msg_buffer: messages stay in it only behind a
\* msg_handler.  It neither starts nor stops timer 0.
LEMMA DoDispatchServes ==
    ASSUME NEW recv, NEW temp, NEW busy \in BOOLEAN, NEW last,
           NEW state, busy => state # "none",
           do_dispatch_msg(recv, temp, busy, last, state)
    PROVE  /\ open /\ ~suspend_dispatch_msg_ /\ ~posting /\ recv_msg_buffer' # <<>>
                 => handler' # "none"
           /\ dispatching' => handler' # "none"
           /\ 0 \in armed' <=> 0 \in armed
<1>1. CASE suspend_dispatch_msg_ \/ posting \/ busy \/ (open /\ recv = <<>>)
  <2>1. /\ dispatching' = busy /\ handler' = state /\ recv_msg_buffer' = recv
        /\ armed' = armed \cup {1} \/ armed' = armed
    BY <1>1 DEF do_dispatch_msg
  <2>2. 0 \in armed' <=> 0 \in armed
    BY <2>1
  <2> QED
    BY <1>1, <2>1, <2>2
<1>2. CASE ~suspend_dispatch_msg_ /\ ~posting /\ ~busy /\ open /\ recv # <<>>
  BY <1>2 DEF do_dispatch_msg
<1>3. CASE ~suspend_dispatch_msg_ /\ ~posting /\ ~busy /\ ~open
  BY <1>3 DEF do_dispatch_msg
<1> QED
  BY <1>1, <1>2, <1>3

\* A step that calls do_dispatch_msg and leaves the flags and the receiver's
\* place as they are, or ends dispatch_msg, keeps the invariant.
LEMMA DispatchKeepsInv ==
    ASSUME RecvInv,
           open /\ ~suspend_dispatch_msg_ /\ ~posting /\ recv_msg_buffer' # <<>>
                 => handler' # "none",
           dispatching' => handler' # "none",
           0 \in armed' <=> 0 \in armed,
           0 \in expired' <=> 0 \in expired,
           UNCHANGED <<linkVars, read, dispatch>>,
           receiver' = receiver \/ (receiver # "none" /\ receiver' # "none")
    PROVE  RecvInv'
<1> USE DEF linkVars
<1>1. DispatchNotStuck'
  BY DEF DispatchNotStuck, DispatchComes
<1>2. OneReceiver'
  BY DEF RecvInv, OneReceiver, Receiving
<1> QED
  BY <1>1, <1>2 DEF RecvInv, DispatchingHasHandler

\* Each step keeps the invariant.
LEMMA RecvInvStep == TypeOK /\ RecvInv /\ [Next]_vars => RecvInv'
<1> SUFFICES ASSUME TypeOK, RecvInv, [Next]_vars PROVE RecvInv'
  OBVIOUS
<1>0. /\ dispatching \in BOOLEAN /\ handler \in {"none", "posted", "accepted", "refused"}
      /\ pc \in [Threads -> {"idle", "do_dispatch_msg"}]
      /\ receiver \in {"none", "loop", "dispatch", "end"}
      /\ dispatching => handler # "none"
  BY DEF TypeOK, RecvInv, DispatchingHasHandler
<1>1. ASSUME dispatch_now
      PROVE  /\ open /\ ~suspend_dispatch_msg_ /\ ~posting /\ recv_msg_buffer' # <<>>
                   => handler' # "none"
             /\ dispatching' => handler' # "none"
             /\ 0 \in armed' <=> 0 \in armed
  BY <1>0, <1>1, DoDispatchServes DEF dispatch_now
<1> USE DEF bufferVars, receiveVars, timerVars, linkVars
<1>2. ASSUME NEW b \in Batches, recv_handler(b) PROVE RecvInv'
  BY <1>2 DEF recv_handler, begin_dispatch_msg, RecvInv, DispatchNotStuck, DispatchComes,
              OneReceiver, Receiving, DispatchingHasHandler
<1>3. CASE on_timer_0
  BY <1>3 DEF on_timer_0, begin_dispatch_msg, RecvInv, DispatchNotStuck, DispatchComes,
              OneReceiver, Receiving, DispatchingHasHandler
<1>4. CASE on_msg_true
  BY <1>4 DEF on_msg_true, RecvInv, DispatchNotStuck, DispatchComes,
              OneReceiver, Receiving, DispatchingHasHandler
<1>5. CASE on_msg_false
  BY <1>5 DEF on_msg_false, RecvInv, DispatchNotStuck, DispatchComes,
              OneReceiver, Receiving, DispatchingHasHandler
<1>6. CASE loop_ends
  BY <1>6 DEF loop_ends, RecvInv, DispatchNotStuck, DispatchComes,
              OneReceiver, Receiving, DispatchingHasHandler
<1>7. CASE receiver_dispatches
  BY <1>1, <1>7, DispatchKeepsInv DEF receiver_dispatches
<1>8. CASE splice_and_dispatch
  <2>0. /\ receiver = "loop" /\ receiver' = "end" /\ FORCE
        /\ UNCHANGED <<read, dispatch, expired, linkVars, pc>>
    BY <1>8 DEF splice_and_dispatch
  <2>1. CASE UNCHANGED <<bufferVars, armed, handled>>
    BY <2>0, <2>1 DEF RecvInv, DispatchNotStuck, DispatchComes,
                      OneReceiver, Receiving, DispatchingHasHandler
  <2>2. CASE do_dispatch_msg(recv_msg_buffer \o SubSeq(temp_msg_buffer, 1, SpliceSize),
                             SubSeq(temp_msg_buffer, SpliceSize + 1, Len(temp_msg_buffer)),
                             dispatching, last_dispatch_msg, handler)
    <3>1. /\ open /\ ~suspend_dispatch_msg_ /\ ~posting /\ recv_msg_buffer' # <<>>
                => handler' # "none"
          /\ dispatching' => handler' # "none"
          /\ 0 \in armed' <=> 0 \in armed
      BY <1>0, <2>2, DoDispatchServes
    <3> QED
      BY <2>0, <3>1, DispatchKeepsInv
  <2> QED
    BY <1>8, <2>1, <2>2 DEF splice_and_dispatch
<1>9. CASE dispatch_msg_ends
  BY <1>9 DEF dispatch_msg_ends, RecvInv, DispatchNotStuck, DispatchComes,
              OneReceiver, Receiving, DispatchingHasHandler
<1>10. CASE on_msg_handle_true
  BY <1>10 DEF on_msg_handle_true, RecvInv, DispatchNotStuck, DispatchComes,
               OneReceiver, Receiving, DispatchingHasHandler
<1>11. CASE on_msg_handle_false
  BY <1>11 DEF on_msg_handle_false, RecvInv, DispatchNotStuck, DispatchComes,
               OneReceiver, Receiving, DispatchingHasHandler
<1>12. CASE msg_handler_accepted
  <2>1. do_dispatch_msg(recv_msg_buffer, temp_msg_buffer, FALSE, NoMsg, "none")
    BY <1>12 DEF msg_handler_accepted
  <2>2. /\ open /\ ~suspend_dispatch_msg_ /\ ~posting /\ recv_msg_buffer' # <<>>
              => handler' # "none"
        /\ dispatching' => handler' # "none"
        /\ 0 \in armed' <=> 0 \in armed
    BY <2>1, DoDispatchServes
  <2> QED
    BY <1>12, <2>2, DispatchKeepsInv DEF msg_handler_accepted
<1>13. CASE msg_handler_refused
  BY <1>13 DEF msg_handler_refused, RecvInv, DispatchNotStuck, DispatchComes,
               OneReceiver, Receiving, DispatchingHasHandler
<1>14. ASSUME NEW id \in TimerIds, on_timer_dispatch(id) PROVE RecvInv'
  <2>1. 0 \in expired' <=> 0 \in expired
    BY <1>14 DEF on_timer_dispatch
  <2> QED
    BY <1>1, <1>14, <2>1, DispatchKeepsInv DEF on_timer_dispatch
<1>15. ASSUME NEW t \in Threads, NEW s \in BOOLEAN, suspend_dispatch_msg(t, s) PROVE RecvInv'
  <2>1. pc'[t] = "do_dispatch_msg"
    BY <1>0, <1>15 DEF suspend_dispatch_msg
  <2>2. DispatchNotStuck'
    BY <2>1 DEF DispatchNotStuck, DispatchComes
  <2> QED
    BY <1>15, <2>2 DEF suspend_dispatch_msg, RecvInv, OneReceiver, Receiving,
                       DispatchingHasHandler
<1>16. ASSUME NEW t \in Threads, thread_dispatches(t) PROVE RecvInv'
  BY <1>1, <1>16, DispatchKeepsInv DEF thread_dispatches
<1>17. ASSUME NEW t \in Threads, post_ends(t) PROVE RecvInv'
  <2>1. pc'[t] = "do_dispatch_msg"
    BY <1>0, <1>17 DEF post_ends
  <2>2. DispatchNotStuck'
    BY <2>1 DEF DispatchNotStuck, DispatchComes
  <2> QED
    BY <1>17, <2>2 DEF post_ends, RecvInv, OneReceiver, Receiving, DispatchingHasHandler
<1>18. CASE post_begins
  BY <1>18 DEF post_begins, RecvInv, DispatchNotStuck, DispatchComes,
               OneReceiver, Receiving, DispatchingHasHandler
<1>19. CASE force_close
  BY <1>19 DEF force_close, clean_up, RecvInv, DispatchNotStuck,
               OneReceiver, Receiving, DispatchingHasHandler
<1>20. CASE on_recv_error
  BY <1>20 DEF on_recv_error, clean_up, RecvInv, DispatchNotStuck,
               OneReceiver, Receiving, DispatchingHasHandler
<1>20r. CASE reset
  BY <1>20r DEF reset, RecvInv, DispatchNotStuck, DispatchComes,
               OneReceiver, Receiving, DispatchingHasHandler
<1>21. CASE data_arrives
  BY <1>21 DEF data_arrives, RecvInv, DispatchNotStuck, DispatchComes,
               OneReceiver, Receiving, DispatchingHasHandler
<1>22. CASE peer_closes
  BY <1>22 DEF peer_closes, RecvInv, DispatchNotStuck, DispatchComes,
               OneReceiver, Receiving, DispatchingHasHandler
<1>23. ASSUME NEW id \in TimerIds, timer_expires(id) PROVE RecvInv'
  BY <1>23 DEF timer_expires, RecvInv, DispatchNotStuck, DispatchComes,
               OneReceiver, Receiving, DispatchingHasHandler
<1>24. CASE UNCHANGED vars
  BY <1>24 DEF vars, RecvInv, DispatchNotStuck, DispatchComes,
               OneReceiver, Receiving, DispatchingHasHandler
<1>25. CASE Receive
  BY <1>2, <1>3, <1>4, <1>5, <1>6, <1>7, <1>8, <1>9, <1>25 DEF Receive
<1>26. CASE Dispatch
  BY <1>10, <1>11, <1>12, <1>13, <1>14, <1>26 DEF Dispatch
<1>27. ASSUME NEW t \in Threads, Call(t) PROVE RecvInv'
  BY <1>15, <1>16, <1>17, <1>27 DEF Call
<1>28. CASE Others
  BY <1>18, <1>19, <1>20, <1>20r, <1>21, <1>22, <1>23, <1>28 DEF Others
<1> QED
  BY <1>24, <1>25, <1>26, <1>27, <1>28 DEF Next

\* The inductive invariant holds in every reachable state.
THEOREM RecvInvHolds == Spec => []RecvInv
<1>1. Init => RecvInv
  BY DEF Init, RecvInv, DispatchNotStuck, OneReceiver, Receiving, DispatchingHasHandler
<1>2. TypeOK /\ RecvInv /\ [Next]_vars => RecvInv'
  BY RecvInvStep
<1> QED
  BY <1>1, <1>2, RecvTypeCorrect, PTL DEF Spec

(***************************************************************************)
(* A received message is never forgotten in recv_msg_buffer of an open     *)
(* socket: refusals by on_msg_handle, suspensions, posting and concurrent  *)
(* calls of do_dispatch_msg always leave a msg_handler, timer 3, the       *)
(* receiver or a thread that dispatches it.                                *)
(***************************************************************************)
THEOREM RecvBufferIsServed == Spec => []DispatchNotStuck
<1>1. RecvInv => DispatchNotStuck
  BY DEF RecvInv
<1> QED
  BY <1>1, RecvInvHolds, PTL

(***************************************************************************)
(* An open socket always has exactly one receiver: a read, a dispatch_msg  *)
(* or timer 0, so two threads never work on temp_msg_buffer in             *)
(* dispatch_msg and reading never stops.                                   *)
(***************************************************************************)
THEOREM ReceivesSequentially == Spec => []OneReceiver
<1>1. RecvInv => OneReceiver
  BY DEF RecvInv
<1> QED
  BY <1>1, RecvInvHolds, PTL

-----------------------------------------------------------------------------
(***************************************************************************)
(* Order.  With FORCE_TO_USE_MSG_RECV_BUFFER and a link that stays up, the *)
(* socket stays open and a msg_handler is under way only while dispatching *)
(* says so; then what was handled, what is offered and the two buffers are *)
(* together what arrived.                                                  *)
(***************************************************************************)
OrderInv ==
    /\ HandledInOrder
    /\ open
    /\ read # "err"
    /\ handler # "none" => dispatching

\* The first message in front of the others is the buffer.
LEMMA FrontFirst ==
    ASSUME NEW S, NEW q \in Seq(S), q # <<>>
    PROVE  <<Head(q)>> \o Tail(q) = q
  OBVIOUS

\* A buffer cut in two, put together again.
LEMMA TwoParts ==
    ASSUME NEW S, NEW q \in Seq(S), NEW n \in 0..Len(q)
    PROVE  SubSeq(q, 1, n) \o SubSeq(q, n + 1, Len(q)) = q
<1>1. /\ Len(q) \in Nat /\ 1 \in 1..Len(q)+1 /\ n \in 1-1..Len(q) /\ Len(q) \in n..Len(q)
  OBVIOUS
<1>2. SubSeq(q, 1, n) \o SubSeq(q, n + 1, Len(q)) = SubSeq(q, 1, Len(q))
  BY <1>1, ConcatAdjacentSubSeq
<1> QED
  BY <1>2, SubSeqFull

\* Adding at the end of a sequence.
LEMMA AppendAsConcat ==
    ASSUME NEW S, NEW q \in Seq(S), NEW e \in S
    PROVE  Append(q, e) = q \o <<e>>
  OBVIOUS

\* do_dispatch_msg on an open socket keeps the messages in line: from a line
\* with no message offered it takes at most the first one.
LEMMA DispatchKeepsLine ==
    ASSUME FORCE, TypeOK, NEW recv \in Seq(Msgs), NEW temp \in Seq(Msgs), NEW busy \in BOOLEAN,
           NEW last \in Msgs \cup {NoMsg}, NEW state \in {"none", "posted", "accepted", "refused"},
           state \in {"posted", "refused"} => last \in Msgs,
           open, state # "none" => busy,
           do_dispatch_msg(recv, temp, busy, last, state)
    PROVE  LET offered == IF state \in {"posted", "refused"} THEN <<last>> ELSE <<>>
           IN  /\ handled' \o Offered' \o recv_msg_buffer' \o temp_msg_buffer'
                    = handled \o offered \o recv \o temp
               /\ handler' # "none" => dispatching'
<1> DEFINE offered == IF state \in {"posted", "refused"} THEN <<last>> ELSE <<>>
<1>0. handled \in Seq(Msgs) /\ offered \in Seq(Msgs)
  BY DEF TypeOK
<1>1. CASE suspend_dispatch_msg_ \/ posting \/ busy \/ (open /\ recv = <<>>)
  <2>1. /\ recv_msg_buffer' = recv /\ temp_msg_buffer' = temp /\ handled' = handled
        /\ last_dispatch_msg' = last /\ handler' = state /\ dispatching' = busy
    BY <1>1 DEF do_dispatch_msg
  <2> QED
    BY <2>1, Zenon DEF Offered
<1>2. CASE ~suspend_dispatch_msg_ /\ ~posting /\ ~busy /\ open /\ recv # <<>>
  <2>1. /\ recv_msg_buffer' = Tail(recv) /\ temp_msg_buffer' = temp /\ handled' = handled
        /\ last_dispatch_msg' = Head(recv) /\ handler' = "posted" /\ dispatching' = TRUE
    BY <1>2 DEF do_dispatch_msg
  <2>2. state = "none"
    BY <1>2
  <2>3. Offered' = <<Head(recv)>> /\ offered = <<>>
    BY <2>1, <2>2 DEF Offered
  <2>4. Head(recv) \in Msgs /\ Tail(recv) \in Seq(Msgs) /\ <<Head(recv)>> \o Tail(recv) = recv
    BY <1>2, FrontOfBuffer, FrontFirst
  <2>5. <<Head(recv)>> \in Seq(Msgs)
    BY <2>4
  <2>6. (handled \o <<Head(recv)>>) \o Tail(recv) = handled \o recv
    BY <1>0, <2>4, <2>5, ConcatAssociative
  <2>7. handled \o <<>> = handled
    BY <1>0, ConcatEmptySeq
  <2> QED
    BY <2>1, <2>3, <2>6, <2>7, Zenon
<1> QED
  BY <1>1, <1>2

\* The same for the call on the buffers as they are.
LEMMA DispatchNowKeepsLine ==
    ASSUME FORCE, TypeOK, OrderInv, dispatch_now, UNCHANGED arrived
    PROVE  HandledInOrder' /\ (handler' # "none" => dispatching')
<1>1. /\ recv_msg_buffer \in Seq(Msgs) /\ temp_msg_buffer \in Seq(Msgs) /\ dispatching \in BOOLEAN
      /\ last_dispatch_msg \in Msgs \cup {NoMsg}
      /\ handler \in {"none", "posted", "accepted", "refused"}
      /\ handler \in {"posted", "refused"} => last_dispatch_msg \in Msgs
  BY DEF TypeOK
<1>2. open /\ (handler # "none" => dispatching)
      /\ handled \o Offered \o recv_msg_buffer \o temp_msg_buffer = arrived
  BY DEF OrderInv, HandledInOrder
<1>3. do_dispatch_msg(recv_msg_buffer, temp_msg_buffer, dispatching, last_dispatch_msg, handler)
  BY DEF dispatch_now
<1>4. /\ handled' \o Offered' \o recv_msg_buffer' \o temp_msg_buffer'
           = handled \o Offered \o recv_msg_buffer \o temp_msg_buffer
      /\ handler' # "none" => dispatching'
  BY <1>1, <1>2, <1>3, DispatchKeepsLine DEF Offered
<1> QED
  BY <1>2, <1>4, Zenon DEF HandledInOrder

\* A line of messages, and that it does not matter which two of four lines are
\* joined first.
IsLine(s) == s \in Seq(Msgs)
Regrouped(a, b, c, d) == (a \o (b \o c)) \o d = (a \o b) \o (c \o d)

\* It does not matter which two of three lines are joined first.
LEMMA Associates ==
    ASSUME NEW a \in Seq(Msgs), NEW b \in Seq(Msgs), NEW c \in Seq(Msgs)
    PROVE  a \o (b \o c) = (a \o b) \o c
  BY ConcatAssociative, SMTT(30)

\* Lines of messages can be regrouped.
LEMMA Regroup ==
    ASSUME NEW a, NEW b, NEW c, NEW d, IsLine(a), IsLine(b), IsLine(c), IsLine(d)
    PROVE  Regrouped(a, b, c, d)
<1>1. /\ a \in Seq(Msgs) /\ b \in Seq(Msgs) /\ c \in Seq(Msgs) /\ d \in Seq(Msgs)
  BY DEF IsLine
<1>2. a \o b \in Seq(Msgs)
  BY <1>1, ConcatProperties
<1>3. a \o (b \o c) = (a \o b) \o c
  BY <1>1, Associates, Zenon
<1>4. ((a \o b) \o c) \o d = (a \o b) \o (c \o d)
  BY <1>1, <1>2, Associates, Zenon
<1> QED
  BY <1>3, <1>4, Zenon DEF Regrouped

\* Each step keeps the messages in line.
LEMMA OrderStep ==
    ASSUME FORCE, ~MayClose
    PROVE  TypeOK /\ OrderInv /\ [Next]_vars => OrderInv'
<1> SUFFICES ASSUME TypeOK, OrderInv, [Next]_vars PROVE OrderInv'
  OBVIOUS
<1>0. /\ temp_msg_buffer \in Seq(Msgs) /\ recv_msg_buffer \in Seq(Msgs)
      /\ handled \in Seq(Msgs) /\ Offered \in Seq(Msgs)
      /\ handler \in {"posted", "refused"} => last_dispatch_msg \in Msgs
  BY DEF TypeOK, Offered
<1>1. /\ handled \o Offered \o recv_msg_buffer \o temp_msg_buffer = arrived
      /\ open /\ read # "err" /\ (handler # "none" => dispatching)
  BY DEF OrderInv, HandledInOrder
<1> USE DEF bufferVars, receiveVars, timerVars, linkVars
<1>2. ASSUME UNCHANGED <<bufferVars, arrived, handled, open>>, read' # "err" PROVE OrderInv'
  BY <1>1, <1>2 DEF OrderInv, HandledInOrder, Offered
<1>3. ASSUME dispatch_now, UNCHANGED <<arrived, open, read>> PROVE OrderInv'
  BY <1>1, <1>3, DispatchNowKeepsLine DEF OrderInv
<1>4. ASSUME NEW b \in Batches, recv_handler(b) PROVE OrderInv'
  <2>1. b \in Seq(Msgs)
    BY BatchType
  <2>2. /\ temp_msg_buffer' = temp_msg_buffer \o b /\ arrived' = arrived \o b
        /\ read' = "none"
        /\ UNCHANGED <<recv_msg_buffer, last_dispatch_msg, dispatching, handler, open, handled>>
    BY <1>4 DEF recv_handler
  <2>4. (handled \o Offered \o recv_msg_buffer) \o (temp_msg_buffer \o b)
          = (handled \o Offered \o recv_msg_buffer \o temp_msg_buffer) \o b
    <3>1. handled \o Offered \o recv_msg_buffer \in Seq(Msgs)
      BY <1>0, ConcatProperties
    <3> QED
      BY <1>0, <2>1, <3>1, Associates, Zenon
  <2>5. Offered' = Offered
    BY <2>2 DEF Offered
  <2>6. HandledInOrder'
    BY <1>1, <2>2, <2>4, <2>5, Zenon DEF HandledInOrder
  <2> QED
    BY <1>1, <2>2, <2>6 DEF OrderInv
<1>5. CASE on_timer_0
  BY <1>1, <1>2, <1>5 DEF on_timer_0
<1>6. CASE on_msg_true \/ on_msg_false \/ loop_ends
  BY <1>6 DEF on_msg_true, on_msg_false, loop_ends
<1>7. CASE receiver_dispatches
  BY <1>3, <1>7 DEF receiver_dispatches
<1>8. CASE splice_and_dispatch
  <2> DEFINE moved == SubSeq(temp_msg_buffer, 1, SpliceSize)
             left  == SubSeq(temp_msg_buffer, SpliceSize + 1, Len(temp_msg_buffer))
  <2>1. UNCHANGED <<read, open, arrived>>
    BY <1>8 DEF splice_and_dispatch
  <2>2. CASE UNCHANGED <<bufferVars, armed, handled>>
    BY <1>1, <1>2, <2>1, <2>2
  <2>3. CASE do_dispatch_msg(recv_msg_buffer \o moved, left, dispatching, last_dispatch_msg, handler)
    <3>1. moved \in Seq(Msgs) /\ left \in Seq(Msgs) /\ moved \o left = temp_msg_buffer
      BY <1>0, SpliceType, TwoParts
    <3> HIDE DEF moved, left
    <3>2. /\ dispatching \in BOOLEAN /\ last_dispatch_msg \in Msgs \cup {NoMsg}
          /\ handler \in {"none", "posted", "accepted", "refused"}
      BY DEF TypeOK
    <3> DEFINE recv == recv_msg_buffer \o moved
    <3>3. moved \in Seq(Msgs) /\ left \in Seq(Msgs) /\ recv \in Seq(Msgs)
      BY <1>0, <3>1
    <3>4. do_dispatch_msg(recv, left, dispatching, last_dispatch_msg, handler)
      BY <2>3
    <3> HIDE DEF recv
    <3>5. /\ handled' \o Offered' \o recv_msg_buffer' \o temp_msg_buffer'
               = handled \o Offered \o recv \o left
          /\ handler' # "none" => dispatching'
      <4>1. /\ handler \in {"posted", "refused"} => last_dispatch_msg \in Msgs
            /\ open /\ (handler # "none" => dispatching)
        BY <1>0, <1>1
      <4>2. LET offered == IF handler \in {"posted", "refused"} THEN <<last_dispatch_msg>> ELSE <<>>
            IN  /\ handled' \o Offered' \o recv_msg_buffer' \o temp_msg_buffer'
                     = handled \o offered \o recv \o left
                /\ handler' # "none" => dispatching'
        BY <3>2, <3>3, <3>4, <4>1, DispatchKeepsLine, Zenon
      <4> QED
        BY <4>2, Zenon DEF Offered
    <3>6. handled \o Offered \o recv \o left
            = handled \o Offered \o recv_msg_buffer \o (moved \o left)
      <4>1. IsLine(handled \o Offered) /\ IsLine(recv_msg_buffer)
        BY <1>0 DEF IsLine
      <4>2. IsLine(moved) /\ IsLine(left)
        BY <3>1 DEF IsLine
      <4>3. Regrouped(handled \o Offered, recv_msg_buffer, moved, left)
        BY <4>1, <4>2, Regroup, Zenon
      <4> QED
        BY <4>3, Zenon DEF Regrouped, recv
    <3>7. HandledInOrder'
      BY <1>1, <2>1, <3>1, <3>5, <3>6, Zenon DEF HandledInOrder
    <3> QED
      BY <1>1, <2>1, <3>5, <3>7 DEF OrderInv
  <2> QED
    BY <1>8, <2>2, <2>3 DEF splice_and_dispatch
<1>9. CASE dispatch_msg_ends
  BY <1>1, <1>2, <1>9 DEF dispatch_msg_ends
<1>10. CASE on_msg_handle_true
  <2>1. /\ handler = "posted" /\ handler' = "accepted"
        /\ handled' = Append(handled, last_dispatch_msg)
        /\ UNCHANGED <<temp_msg_buffer, recv_msg_buffer, dispatching, read, open, arrived>>
    BY <1>10 DEF on_msg_handle_true
  <2>2. Offered = <<last_dispatch_msg>> /\ Offered' = <<>>
    BY <2>1 DEF Offered
  <2>3. handled' = handled \o Offered /\ handled' \in Seq(Msgs)
    BY <1>0, <2>1, <2>2, AppendAsConcat
  <2>4. handled' \o Offered' = handled \o Offered
    BY <2>2, <2>3, ConcatEmptySeq
  <2>5. HandledInOrder'
    BY <1>1, <2>1, <2>4, Zenon DEF HandledInOrder
  <2> QED
    BY <1>1, <2>1, <2>5 DEF OrderInv
<1>11. CASE on_msg_handle_false
  <2>1. Offered' = Offered
    BY <1>11 DEF on_msg_handle_false, Offered
  <2> QED
    BY <1>1, <1>11, <2>1 DEF on_msg_handle_false, OrderInv, HandledInOrder
<1>12. CASE msg_handler_accepted
  <2>1. /\ do_dispatch_msg(recv_msg_buffer, temp_msg_buffer, FALSE, NoMsg, "none")
        /\ handler = "accepted" /\ UNCHANGED <<read, open, arrived>>
    BY <1>12 DEF msg_handler_accepted
  <2>2. /\ handled' \o Offered' \o recv_msg_buffer' \o temp_msg_buffer'
             = handled \o <<>> \o recv_msg_buffer \o temp_msg_buffer
        /\ handler' # "none" => dispatching'
    BY <1>0, <1>1, <2>1, DispatchKeepsLine
  <2>3. Offered = <<>>
    BY <2>1 DEF Offered
  <2>4. HandledInOrder'
    BY <1>1, <2>1, <2>2, <2>3, Zenon DEF HandledInOrder
  <2> QED
    BY <1>1, <2>1, <2>2, <2>4 DEF OrderInv
<1>13. CASE msg_handler_refused
  <2>1. /\ handler = "refused" /\ handler' = "none"
        /\ recv_msg_buffer' = <<last_dispatch_msg>> \o recv_msg_buffer
        /\ UNCHANGED <<temp_msg_buffer, handled, read, open, arrived>>
    BY <1>13 DEF msg_handler_refused
  <2>2. Offered = <<last_dispatch_msg>> /\ Offered' = <<>>
    BY <2>1 DEF Offered
  <2>3. (handled \o Offered) \o recv_msg_buffer = handled \o (Offered \o recv_msg_buffer)
    BY <1>0, ConcatAssociative
  <2>4. handled \o <<>> = handled
    BY <1>0, ConcatEmptySeq
  <2>5. HandledInOrder'
    BY <1>1, <2>1, <2>2, <2>3, <2>4, Zenon DEF HandledInOrder
  <2> QED
    BY <1>1, <2>1, <2>5 DEF OrderInv
<1>14. ASSUME NEW id \in TimerIds, on_timer_dispatch(id) PROVE OrderInv'
  BY <1>3, <1>14 DEF on_timer_dispatch
<1>15. ASSUME NEW t \in Threads, Call(t) PROVE OrderInv'
  <2>1. ASSUME NEW s \in BOOLEAN, suspend_dispatch_msg(t, s) PROVE OrderInv'
    BY <1>1, <1>2, <2>1 DEF suspend_dispatch_msg
  <2>2. CASE thread_dispatches(t)
    BY <1>3, <2>2 DEF thread_dispatches
  <2>3. CASE post_ends(t)
    BY <1>1, <1>2, <2>3 DEF post_ends
  <2> QED
    BY <1>15, <2>1, <2>2, <2>3 DEF Call
<1>16. CASE Others
  <2>1. CASE post_begins
    BY <1>1, <1>2, <2>1 DEF post_begins
  <2>2. CASE force_close \/ peer_closes \/ on_recv_error \/ reset
    BY <1>1, <2>2 DEF force_close, peer_closes, on_recv_error, reset
  <2>3. CASE data_arrives
    BY <1>2, <2>3 DEF data_arrives
  <2>4. ASSUME NEW id \in TimerIds, timer_expires(id) PROVE OrderInv'
    BY <1>1, <1>2, <2>4 DEF timer_expires
  <2> QED
    BY <1>16, <2>1, <2>2, <2>3, <2>4 DEF Others
<1>17. CASE UNCHANGED vars
  BY <1>1, <1>2, <1>17 DEF vars
<1>18. CASE Receive
  BY <1>4, <1>5, <1>6, <1>7, <1>8, <1>9, <1>18 DEF Receive
<1>19. CASE Dispatch
  BY <1>10, <1>11, <1>12, <1>13, <1>14, <1>19 DEF Dispatch
<1> QED
  BY <1>15, <1>16, <1>17, <1>18, <1>19 DEF Next

(***************************************************************************)
(* With FORCE_TO_USE_MSG_RECV_BUFFER, and while the link stays up, every   *)
(* message is handled once and in the order of arrival: none is lost,      *)
(* doubled or overtaken in the overflow of the receive buffer, by          *)
(* refusals, suspensions, posting or concurrent calls of do_dispatch_msg.  *)
(***************************************************************************)
THEOREM DispatchInOrder ==
    ASSUME FORCE, ~MayClose
    PROVE  Spec => []HandledInOrder
<1>1. Init => OrderInv
  BY DEF Init, OrderInv, HandledInOrder, Offered
<1>2. TypeOK /\ OrderInv /\ [Next]_vars => OrderInv'
  BY OrderStep
<1>3. OrderInv => HandledInOrder
  BY DEF OrderInv
<1> QED
  BY <1>1, <1>2, <1>3, RecvTypeCorrect, PTL DEF Spec
-----------------------------------------------------------------------------
(***************************************************************************)
(* Each message once, with or without FORCE_TO_USE_MSG_RECV_BUFFER and     *)
(* however the link ends.  The order is lost (on_msg takes messages out of *)
(* turn), so the messages are counted and collected.  While the socket is  *)
(* open no message is dispatched over one that is still offered; once it   *)
(* is closed no msg_handler is posted, although clean_up has reset         *)
(* dispatching.                                                            *)
(***************************************************************************)
OnceInv ==
    /\ EachOnce
    /\ open /\ handler # "none" => dispatching

\* The elements and the lengths of what the buffers are made of.
LEMMA ConcatElements ==
    ASSUME NEW s \in Seq(Msgs), NEW t \in Seq(Msgs)
    PROVE  /\ s \o t \in Seq(Msgs)
           /\ Len(s \o t) = Len(s) + Len(t)
           /\ Elements(s \o t) = Elements(s) \cup Elements(t)
<1>1. s \o t \in Seq(Msgs) /\ Len(s \o t) = Len(s) + Len(t)
  OBVIOUS
<1>2. ASSUME NEW x \in Elements(s \o t) PROVE x \in Elements(s) \cup Elements(t)
  <2>1. PICK i \in 1..Len(s \o t) : x = (s \o t)[i]
    BY <1>2 DEF Elements
  <2>2. CASE i <= Len(s)
    BY <1>1, <2>1, <2>2 DEF Elements
  <2>3. CASE i > Len(s)
    <3>1. i - Len(s) \in 1..Len(t) /\ x = t[i - Len(s)]
      BY <1>1, <2>1, <2>3
    <3> QED
      BY <3>1 DEF Elements
  <2> QED
    BY <2>1, <2>2, <2>3
<1>3. ASSUME NEW x \in Elements(s) PROVE x \in Elements(s \o t)
  <2>1. PICK i \in 1..Len(s) : x = s[i]
    BY <1>3 DEF Elements
  <2>2. i \in 1..Len(s \o t) /\ x = (s \o t)[i]
    BY <1>1, <2>1
  <2> QED
    BY <2>2 DEF Elements
<1>4. ASSUME NEW x \in Elements(t) PROVE x \in Elements(s \o t)
  <2>1. PICK i \in 1..Len(t) : x = t[i]
    BY <1>4 DEF Elements
  <2>2. i + Len(s) \in 1..Len(s \o t) /\ x = (s \o t)[i + Len(s)]
    BY <1>1, <2>1
  <2> QED
    BY <2>2 DEF Elements
<1>5. Elements(s \o t) = Elements(s) \cup Elements(t)
  BY <1>2, <1>3, <1>4, Zenon
<1> QED
  BY <1>1, <1>5

\* One message, or none.
LEMMA ShortLines ==
    ASSUME NEW m \in Msgs
    PROVE  /\ <<m>> \in Seq(Msgs) /\ Len(<<m>>) = 1 /\ Elements(<<m>>) = {m}
           /\ <<>> \in Seq(Msgs) /\ Len(<<>>) = 0 /\ Elements(<<>>) = {}
<1>1. <<m>> \in Seq(Msgs) /\ Len(<<m>>) = 1 /\ <<m>>[1] = m
  OBVIOUS
<1>2. Elements(<<m>>) = {m}
  BY <1>1 DEF Elements
<1>3. Len(<<>>) = 0 /\ <<>> \in Seq(Msgs)
  OBVIOUS
<1>4. Elements(<<>>) = {}
  BY <1>3 DEF Elements
<1> QED
  BY <1>1, <1>2, <1>3, <1>4

\* A line without one of its messages, as erase and splice leave it.
LEMMA WithoutOne ==
    ASSUME NEW q \in Seq(Msgs), NEW k \in 1..Len(q)
    PROVE  LET w == SubSeq(q, 1, k - 1) \o SubSeq(q, k + 1, Len(q)) IN
           /\ w \in Seq(Msgs) /\ q[k] \in Msgs
           /\ Len(w) + 1 = Len(q)
           /\ Elements(w) \cup {q[k]} = Elements(q)
<1> DEFINE a == SubSeq(q, 1, k - 1)
           b == SubSeq(q, k, Len(q))
           c == SubSeq(q, k + 1, Len(q))
<1>0. Len(q) \in Nat /\ k - 1 \in 0..Len(q) /\ (k - 1) + 1 = k /\ k \in Nat /\ q[k] \in Msgs
  OBVIOUS
<1>1. a \in Seq(Msgs) /\ b \in Seq(Msgs) /\ c \in Seq(Msgs)
  <2>1. 1 \in Nat \ {0} /\ k \in Nat \ {0} /\ k + 1 \in Nat \ {0} /\ Len(q) \in 0..Len(q)
    OBVIOUS
  <2> QED
    BY <1>0, <2>1, PartOfBuffer
<1>2. a \o b = q
  BY <1>0, TwoParts
<1>3. b = <<q[k]>> \o c
  <2>1. Len(q) \in k..Len(q)
    BY <1>0
  <2> QED
    BY <2>1, SubSeqRecursiveFirst
<1> HIDE DEF a, b, c
<1>4. Len(a) \in Nat /\ Len(b) \in Nat /\ Len(c) \in Nat
  BY <1>1
<1>5. Len(q) = Len(a) + Len(b) /\ Elements(q) = Elements(a) \cup Elements(b)
  BY <1>1, <1>2, ConcatElements
<1>6. Len(b) = 1 + Len(c) /\ Elements(b) = {q[k]} \cup Elements(c)
  <2> DEFINE f == <<q[k]>>
  <2>1. f \in Seq(Msgs) /\ Len(f) = 1 /\ Elements(f) = {q[k]}
    BY <1>0, ShortLines
  <2>2. b = f \o c
    BY <1>3
  <2> HIDE DEF f
  <2>3. Len(f \o c) = Len(f) + Len(c) /\ Elements(f \o c) = Elements(f) \cup Elements(c)
    BY <1>1, <2>1, ConcatElements
  <2> QED
    BY <2>1, <2>2, <2>3, Zenon
<1>7. a \o c \in Seq(Msgs) /\ Len(a \o c) = Len(a) + Len(c) /\ Elements(a \o c) = Elements(a) \cup Elements(c)
  BY <1>1, ConcatElements
<1>8. Len(a \o c) + 1 = Len(q)
  BY <1>4, <1>5, <1>6, <1>7
<1>9. Elements(a \o c) \cup {q[k]} = Elements(q)
  BY <1>5, <1>6, <1>7
<1> QED
  BY <1>0, <1>7, <1>8, <1>9 DEF a, c

\* Four lines together have so many messages, and these.
Count(h, o, r, t) == Len(h) + Len(o) + Len(r) + Len(t)
Held(h, o, r, t) == Elements(h) \cup Elements(o) \cup Elements(r) \cup Elements(t)

\* EachOnce, in these terms.
LEMMA FourLines ==
    ASSUME NEW h \in Seq(Msgs), NEW o \in Seq(Msgs), NEW r \in Seq(Msgs), NEW t \in Seq(Msgs)
    PROVE  LET all == h \o o \o r \o t IN Len(all) = Count(h, o, r, t) /\ Elements(all) = Held(h, o, r, t)
<1>1. h \o o \in Seq(Msgs) /\ Len(h \o o) = Len(h) + Len(o) /\ Elements(h \o o) = Elements(h) \cup Elements(o)
  BY ConcatElements
<1> DEFINE ho == h \o o
<1> HIDE DEF ho
<1>2. ho \o r \in Seq(Msgs) /\ Len(ho \o r) = Len(ho) + Len(r) /\ Elements(ho \o r) = Elements(ho) \cup Elements(r)
  BY <1>1, ConcatElements DEF ho
<1> DEFINE hor == ho \o r
<1> HIDE DEF hor
<1>3. Len(hor \o t) = Len(hor) + Len(t) /\ Elements(hor \o t) = Elements(hor) \cup Elements(t)
  BY <1>2, ConcatElements DEF hor
<1>4. Len(hor \o t) = Count(h, o, r, t)
  BY <1>1, <1>2, <1>3, Zenon DEF Count, ho, hor
<1>5. Elements(hor \o t) = Held(h, o, r, t)
  BY <1>1, <1>2, <1>3, Zenon DEF Held, ho, hor
<1> QED
  BY <1>4, <1>5, Zenon DEF ho, hor

\* do_dispatch_msg moves messages, and neither loses nor doubles one.
LEMMA DispatchKeepsAll ==
    ASSUME TypeOK, NEW recv \in Seq(Msgs), NEW temp \in Seq(Msgs), NEW busy \in BOOLEAN,
           NEW last \in Msgs \cup {NoMsg}, NEW state \in {"none", "posted", "accepted", "refused"},
           state \in {"posted", "refused"} => last \in Msgs,
           open /\ state # "none" => busy,
           do_dispatch_msg(recv, temp, busy, last, state)
    PROVE  LET offered == IF state \in {"posted", "refused"} THEN <<last>> ELSE <<>>
           IN  /\ Count(handled', Offered', recv_msg_buffer', temp_msg_buffer') = Count(handled, offered, recv, temp)
               /\ Held(handled', Offered', recv_msg_buffer', temp_msg_buffer') = Held(handled, offered, recv, temp)
               /\ open /\ handler' # "none" => dispatching'
<1> DEFINE offered == IF state \in {"posted", "refused"} THEN <<last>> ELSE <<>>
<1>0. handled \in Seq(Msgs) /\ offered \in Seq(Msgs)
  BY DEF TypeOK
<1>d. offered = IF state \in {"posted", "refused"} THEN <<last>> ELSE <<>>
  OBVIOUS
<1> SUFFICES /\ Count(handled', Offered', recv_msg_buffer', temp_msg_buffer') = Count(handled, offered, recv, temp)
             /\ Held(handled', Offered', recv_msg_buffer', temp_msg_buffer') = Held(handled, offered, recv, temp)
             /\ open /\ handler' # "none" => dispatching'
  BY Zenon
<1> HIDE DEF offered
<1>e. <<>> \in Seq(Msgs) /\ Len(<<>>) = 0 /\ Elements(<<>>) = {}
  BY DEF Elements
<1>n. Len(handled) \in Nat /\ Len(offered) \in Nat /\ Len(recv) \in Nat /\ Len(temp) \in Nat
  BY <1>0
<1>1. CASE suspend_dispatch_msg_ \/ posting \/ busy \/ (open /\ recv = <<>>)
  <2>1. /\ recv_msg_buffer' = recv /\ temp_msg_buffer' = temp /\ handled' = handled
        /\ last_dispatch_msg' = last /\ handler' = state /\ dispatching' = busy
    BY <1>1 DEF do_dispatch_msg
  <2>2. Offered' = offered
    BY <1>d, <2>1, Zenon DEF Offered
  <2> QED
    BY <2>1, <2>2, Zenon
<1>2. CASE ~suspend_dispatch_msg_ /\ ~posting /\ ~busy /\ open /\ recv # <<>>
  <2>1. /\ recv_msg_buffer' = Tail(recv) /\ temp_msg_buffer' = temp /\ handled' = handled
        /\ last_dispatch_msg' = Head(recv) /\ handler' = "posted" /\ dispatching' = TRUE
    BY <1>2 DEF do_dispatch_msg
  <2>2. state = "none"
    BY <1>2
  <2>3. Offered' = <<Head(recv)>> /\ offered = <<>>
    BY <1>d, <2>1, <2>2 DEF Offered
  <2>4. Head(recv) \in Msgs /\ Tail(recv) \in Seq(Msgs) /\ <<Head(recv)>> \o Tail(recv) = recv
    BY <1>2, FrontOfBuffer, FrontFirst
  <2> DEFINE f == <<Head(recv)>>
             g == Tail(recv)
  <2>5. f \in Seq(Msgs) /\ f \o g = recv /\ g \in Seq(Msgs)
    BY <2>4
  <2>6. Offered' = f /\ recv_msg_buffer' = g
    BY <2>1, <2>3
  <2> HIDE DEF f, g
  <2>7. Len(recv) = Len(f) + Len(g) /\ Elements(recv) = Elements(f) \cup Elements(g)
    BY <2>5, ConcatElements
  <2>8. Len(f) \in Nat /\ Len(g) \in Nat
    BY <2>5
  <2>9. Count(handled, f, g, temp) = Count(handled, offered, recv, temp)
    <3>1. Len(recv) = Len(f) + Len(g) /\ Len(offered) = 0
      BY <1>e, <2>3, <2>7, Zenon
    <3>2. Count(handled, offered, recv, temp) = Len(handled) + Len(offered) + Len(recv) + Len(temp)
      BY DEF Count
    <3>3. Count(handled, f, g, temp) = Len(handled) + Len(f) + Len(g) + Len(temp)
      BY DEF Count
    <3> DEFINE a == Len(handled)
               b == Len(recv)
               c == Len(temp)
               d == Len(f)
               e == Len(g)
    <3>4. a \in Nat /\ c \in Nat /\ d \in Nat /\ e \in Nat /\ b = d + e
      BY <1>n, <2>8, <3>1
    <3> HIDE DEF a, b, c, d, e
    <3>5. a + 0 + b + c = a + d + e + c
      BY <3>4
    <3> QED
      BY <3>1, <3>2, <3>3, <3>5, Zenon DEF a, b, c, d, e
  <2>10. Held(handled, f, g, temp) = Held(handled, offered, recv, temp)
    BY <1>e, <2>3, <2>7 DEF Held
  <2> QED
    BY <2>1, <2>6, <2>9, <2>10, Zenon
<1>3. CASE ~suspend_dispatch_msg_ /\ ~posting /\ ~busy /\ ~open
  <2> DEFINE late == IF FORCE THEN temp ELSE <<>>
             left == IF FORCE THEN <<>> ELSE temp
             hr == handled \o recv
  <2>1. /\ handled' = hr \o late /\ recv_msg_buffer' = <<>> /\ temp_msg_buffer' = left
        /\ last_dispatch_msg' = last /\ handler' = state
    BY <1>3 DEF do_dispatch_msg
  <2>2. Offered' = offered
    BY <1>d, <2>1, Zenon DEF Offered
  <2>3. /\ late \in Seq(Msgs) /\ left \in Seq(Msgs)
        /\ Len(late) + Len(left) = Len(temp)
        /\ Elements(late) \cup Elements(left) = Elements(temp)
    <3>1. CASE FORCE
      <4>1. late = temp /\ left = <<>>
        BY <3>1
      <4> HIDE DEF late, left
      <4> QED
        BY <1>e, <1>n, <4>1
    <3>2. CASE ~FORCE
      <4>1. late = <<>> /\ left = temp
        BY <3>2
      <4> HIDE DEF late, left
      <4> QED
        BY <1>e, <1>n, <4>1
    <3> QED
      BY <3>1, <3>2
  <2> HIDE DEF late, left
  <2>4. hr \in Seq(Msgs) /\ Len(hr) = Len(handled) + Len(recv) /\ Elements(hr) = Elements(handled) \cup Elements(recv)
    BY <1>0, ConcatElements
  <2> HIDE DEF hr
  <2>5. Len(hr \o late) = Len(hr) + Len(late) /\ Elements(hr \o late) = Elements(hr) \cup Elements(late)
    BY <2>3, <2>4, ConcatElements
  <2>6. Len(late) \in Nat /\ Len(left) \in Nat
    BY <2>3
  <2>7. Count(hr \o late, offered, <<>>, left) = Count(handled, offered, recv, temp)
    <3>2. Len(hr \o late) = Len(handled) + Len(recv) + Len(late)
      BY <2>4, <2>5, Zenon
    <3>3. Count(hr \o late, offered, <<>>, left) = (Len(handled) + Len(recv) + Len(late)) + Len(offered) + 0 + Len(left)
      BY <1>e, <3>2, Zenon DEF Count
    <3>4. Count(handled, offered, recv, temp) = Len(handled) + Len(offered) + Len(recv) + (Len(late) + Len(left))
      BY <2>3, Zenon DEF Count
    <3> DEFINE a == Len(handled)
               b == Len(recv)
               c == Len(late)
               d == Len(offered)
               e == Len(left)
    <3>5. a \in Nat /\ b \in Nat /\ c \in Nat /\ d \in Nat /\ e \in Nat
      BY <1>n, <2>6
    <3> HIDE DEF a, b, c, d, e
    <3>6. (a + b + c) + d + 0 + e = a + d + b + (c + e)
      BY <3>5
    <3> QED
      BY <3>3, <3>4, <3>6, Zenon DEF a, b, c, d, e
  <2>8. Held(hr \o late, offered, <<>>, left) = Held(handled, offered, recv, temp)
    BY <1>e, <2>3, <2>4, <2>5 DEF Held
  <2> QED
    BY <1>3, <2>1, <2>2, <2>7, <2>8, Zenon
<1> QED
  BY <1>1, <1>2, <1>3 DEF do_dispatch_msg

\* Each step keeps every message once.
LEMMA OnceStep == TypeOK /\ OnceInv /\ [Next]_vars => OnceInv'
<1> SUFFICES ASSUME TypeOK, OnceInv, [Next]_vars PROVE OnceInv'
  OBVIOUS
<1>0. /\ temp_msg_buffer \in Seq(Msgs) /\ recv_msg_buffer \in Seq(Msgs)
      /\ handled \in Seq(Msgs) /\ arrived \in Seq(Msgs) /\ Offered \in Seq(Msgs)
      /\ last_dispatch_msg \in Msgs \cup {NoMsg}
      /\ handler \in {"none", "posted", "accepted", "refused"}
      /\ handler \in {"posted", "refused"} => last_dispatch_msg \in Msgs
      /\ dispatching \in BOOLEAN /\ discarded \in Seq(Msgs)
  BY DEF TypeOK, Offered
<1>0p. /\ temp_msg_buffer' \in Seq(Msgs) /\ recv_msg_buffer' \in Seq(Msgs)
       /\ handled' \in Seq(Msgs) /\ arrived' \in Seq(Msgs) /\ Offered' \in Seq(Msgs)
  <2>1. TypeOK'
    BY RecvTypeStep
  <2> QED
    BY <2>1 DEF TypeOK, Offered
<1> DEFINE C == Count(handled, Offered, recv_msg_buffer, temp_msg_buffer)
           H == Held(handled, Offered, recv_msg_buffer, temp_msg_buffer)
           D == Count(handled', Offered', recv_msg_buffer', temp_msg_buffer')
           I == Held(handled', Offered', recv_msg_buffer', temp_msg_buffer')
<1>1. /\ C + Len(discarded) = Len(arrived) /\ H \cup Elements(discarded) = Elements(arrived)
      /\ open => discarded = <<>>
      /\ open /\ handler # "none" => dispatching
  <2>1. LET all == handled \o Offered \o recv_msg_buffer \o temp_msg_buffer
        IN  Len(all) = C /\ Elements(all) = H
    BY <1>0, FourLines
  <2> QED
    BY <2>1, Zenon DEF OnceInv, EachOnce
<1>1a. ASSUME D + Len(discarded') = Len(arrived'), I \cup Elements(discarded') = Elements(arrived'),
              open' => discarded' = <<>>, open' /\ handler' # "none" => dispatching'
       PROVE  OnceInv'
  <2>1. LET all == handled' \o Offered' \o recv_msg_buffer' \o temp_msg_buffer'
        IN  Len(all) = D /\ Elements(all) = I
    BY <1>0p, FourLines
  <2>2. \A s : Elements(s)' = Elements(s')
    BY DEF Elements
  <2>3. EachOnce'
    BY <1>1a, <2>1 DEF EachOnce, Elements
  <2> QED
    BY <1>1a, <2>3, Zenon DEF OnceInv
<1> HIDE DEF C, H, D, I
<1>2. ASSUME D = C, I = H, arrived' = arrived, discarded' = discarded, open' => open,
             open' /\ handler' # "none" => dispatching'
      PROVE  OnceInv'
  BY <1>1, <1>1a, <1>2, Zenon
<1>3. ASSUME UNCHANGED <<bufferVars, arrived, handled, discarded>>, open' => open
      PROVE  OnceInv'
  <2>1. /\ temp_msg_buffer' = temp_msg_buffer /\ recv_msg_buffer' = recv_msg_buffer /\ handled' = handled
        /\ arrived' = arrived /\ handler' = handler /\ dispatching' = dispatching
        /\ last_dispatch_msg' = last_dispatch_msg
    BY <1>3, Zenon DEF bufferVars
  <2>2. Offered' = Offered
    BY <2>1, Zenon DEF Offered
  <2>3. D = C /\ I = H
    BY <2>1, <2>2, Zenon DEF C, H, D, I
  <2> QED
    BY <1>1, <1>2, <1>3, <2>1, <2>3, Zenon
<1>4. ASSUME dispatch_now, UNCHANGED <<arrived, open, discarded>> PROVE OnceInv'
  <2>1. /\ D = C /\ I = H
        /\ open /\ handler' # "none" => dispatching'
    <3>1. Offered = IF handler \in {"posted", "refused"} THEN <<last_dispatch_msg>> ELSE <<>>
      BY Zenon DEF Offered
    <3>2. do_dispatch_msg(recv_msg_buffer, temp_msg_buffer, dispatching, last_dispatch_msg, handler)
      BY <1>4, Zenon DEF dispatch_now
    <3>3. open /\ handler # "none" => dispatching
      BY <1>1
    <3> QED
      BY <1>0, <3>1, <3>2, <3>3, DispatchKeepsAll DEF C, H, D, I
  <2> QED
    BY <1>1, <1>2, <1>4, <2>1, Zenon
<1>5. ASSUME NEW b \in Batches, recv_handler(b) PROVE OnceInv'
  <2>1. b \in Seq(Msgs)
    BY BatchType
  <2>2. /\ temp_msg_buffer' = temp_msg_buffer \o b /\ arrived' = arrived \o b
        /\ recv_msg_buffer' = recv_msg_buffer /\ handled' = handled /\ handler' = handler
        /\ last_dispatch_msg' = last_dispatch_msg /\ dispatching' = dispatching /\ open' = open /\ discarded' = discarded
    BY <1>5, Zenon DEF recv_handler, linkVars
  <2>3. Offered' = Offered
    BY <2>2, Zenon DEF Offered
  <2>4. /\ Len(temp_msg_buffer \o b) = Len(temp_msg_buffer) + Len(b)
        /\ Elements(temp_msg_buffer \o b) = Elements(temp_msg_buffer) \cup Elements(b)
        /\ Len(arrived \o b) = Len(arrived) + Len(b)
        /\ Elements(arrived \o b) = Elements(arrived) \cup Elements(b)
    BY <1>0, <2>1, ConcatElements
  <2>5. D = C + Len(b)
    <3>2. /\ Len(handled) \in Nat /\ Len(Offered) \in Nat /\ Len(recv_msg_buffer) \in Nat
          /\ Len(temp_msg_buffer) \in Nat /\ Len(b) \in Nat
      BY <1>0, <2>1
    <3>3. D = Len(handled) + Len(Offered) + Len(recv_msg_buffer) + (Len(temp_msg_buffer) + Len(b))
      BY <2>2, <2>3, <2>4, Zenon DEF D, Count
    <3>4. C = Len(handled) + Len(Offered) + Len(recv_msg_buffer) + Len(temp_msg_buffer)
      BY Zenon DEF C, Count
    <3> QED
      BY <3>2, <3>3, <3>4
  <2>6. I = H \cup Elements(b)
    <3>1. I = Held(handled, Offered, recv_msg_buffer, temp_msg_buffer \o b)
      BY <2>2, <2>3, Zenon DEF I
    <3> QED
      BY <2>4, <3>1 DEF H, Held
  <2> QED
    <3>1. Len(discarded) \in Nat /\ Len(b) \in Nat /\ Len(arrived) \in Nat
      BY <1>0, <2>1
    <3>2. C \in Nat
      <4>1. Len(handled) \in Nat /\ Len(Offered) \in Nat /\ Len(recv_msg_buffer) \in Nat /\ Len(temp_msg_buffer) \in Nat
        BY <1>0
      <4> QED
        BY <4>1 DEF C, Count
    <3>3. D + Len(discarded') = Len(arrived')
      <4>1. (C + Len(b)) + Len(discarded) = Len(arrived) + Len(b)
        BY <1>1, <3>1, <3>2
      <4> QED
        BY <2>2, <2>4, <2>5, <4>1, Zenon
    <3>4. I \cup Elements(discarded') = Elements(arrived')
      <4>1. (H \cup Elements(b)) \cup Elements(discarded) = Elements(arrived) \cup Elements(b)
        BY <1>1
      <4> QED
        BY <2>2, <2>4, <2>6, <4>1, Zenon
    <3> QED
      BY <1>1, <1>1a, <2>2, <3>3, <3>4, Zenon
<1>6. ASSUME Looping
      PROVE  /\ WithoutIter \in Seq(Msgs) /\ temp_msg_buffer[iter] \in Msgs
             /\ Len(WithoutIter) + 1 = Len(temp_msg_buffer)
             /\ Elements(WithoutIter) \cup {temp_msg_buffer[iter]} = Elements(temp_msg_buffer)
  <2>1. iter \in Nat /\ iter > 0 /\ Len(temp_msg_buffer) \in Nat
    BY <1>0 DEF TypeOK
  <2>2. iter \in 1..Len(temp_msg_buffer)
    BY <1>6, <2>1 DEF Looping
  <2> QED
    BY <1>0, <2>2, WithoutOne DEF WithoutIter
<1>7. ASSUME NEW q \in Seq(Msgs), NEW m \in Msgs
      PROVE  Append(q, m) \in Seq(Msgs) /\ Len(Append(q, m)) = Len(q) + 1 /\ Elements(Append(q, m)) = Elements(q) \cup {m}
  <2> DEFINE f == <<m>>
  <2>1. f \in Seq(Msgs) /\ Len(f) = 1 /\ Elements(f) = {m} /\ Append(q, m) = q \o f
    BY ShortLines, AppendAsConcat
  <2> HIDE DEF f
  <2>2. q \o f \in Seq(Msgs) /\ Len(q \o f) = Len(q) + Len(f) /\ Elements(q \o f) = Elements(q) \cup Elements(f)
    BY <2>1, ConcatElements
  <2> QED
    BY <2>1, <2>2, Zenon
<1>n. /\ Len(handled) \in Nat /\ Len(Offered) \in Nat /\ Len(recv_msg_buffer) \in Nat
      /\ Len(temp_msg_buffer) \in Nat
  BY <1>0
<1>8. CASE on_msg_true
  <2> DEFINE m == temp_msg_buffer[iter]
  <2>1. /\ handled' = Append(handled, m) /\ temp_msg_buffer' = WithoutIter /\ Looping
        /\ recv_msg_buffer' = recv_msg_buffer /\ handler' = handler /\ arrived' = arrived
        /\ last_dispatch_msg' = last_dispatch_msg /\ dispatching' = dispatching /\ open' = open /\ discarded' = discarded
    BY <1>8, Zenon DEF on_msg_true, linkVars
  <2>2. Offered' = Offered
    BY <2>1, Zenon DEF Offered
  <2>3. /\ WithoutIter \in Seq(Msgs) /\ m \in Msgs /\ Len(WithoutIter) + 1 = Len(temp_msg_buffer)
        /\ Elements(WithoutIter) \cup {m} = Elements(temp_msg_buffer)
    BY <1>6, <2>1
  <2> HIDE DEF m
  <2>4. Len(Append(handled, m)) = Len(handled) + 1 /\ Elements(Append(handled, m)) = Elements(handled) \cup {m}
    BY <1>0, <1>7, <2>3
  <2>5. D = C
    <3>2. Len(WithoutIter) \in Nat
      BY <2>3
    <3>3. D = (Len(handled) + 1) + Len(Offered) + Len(recv_msg_buffer) + Len(WithoutIter)
      BY <2>1, <2>2, <2>4, Zenon DEF D, Count
    <3>4. C = Len(handled) + Len(Offered) + Len(recv_msg_buffer) + (Len(WithoutIter) + 1)
      BY <2>3, Zenon DEF C, Count
    <3> QED
      BY <1>n, <3>2, <3>3, <3>4
  <2>6. I = H
    <3>1. I = Held(Append(handled, m), Offered, recv_msg_buffer, WithoutIter)
      BY <2>1, <2>2, Zenon DEF I
    <3> QED
      BY <2>3, <2>4, <3>1 DEF H, Held
  <2> QED
    BY <1>1, <1>2, <2>1, <2>5, <2>6, Zenon
<1>9. CASE on_msg_false
  <2> DEFINE m == temp_msg_buffer[iter]
  <2>1. /\ handled' = handled /\ handler' = handler /\ arrived' = arrived /\ Looping
        /\ last_dispatch_msg' = last_dispatch_msg /\ dispatching' = dispatching /\ open' = open /\ discarded' = discarded
    BY <1>9, Zenon DEF on_msg_false, linkVars
  <2>2. Offered' = Offered
    BY <2>1, Zenon DEF Offered
  <2>3. CASE temp_msg_buffer' = temp_msg_buffer /\ recv_msg_buffer' = recv_msg_buffer
    <3>1. D = C /\ I = H
      BY <2>1, <2>2, <2>3, Zenon DEF C, H, D, I
    <3> QED
      BY <1>1, <1>2, <2>1, <3>1, Zenon
  <2>4. CASE recv_msg_buffer' = Append(recv_msg_buffer, m) /\ temp_msg_buffer' = WithoutIter
    <3>1. /\ WithoutIter \in Seq(Msgs) /\ m \in Msgs /\ Len(WithoutIter) + 1 = Len(temp_msg_buffer)
          /\ Elements(WithoutIter) \cup {m} = Elements(temp_msg_buffer)
      BY <1>6, <2>1
    <3> HIDE DEF m
    <3>2. /\ Len(Append(recv_msg_buffer, m)) = Len(recv_msg_buffer) + 1
          /\ Elements(Append(recv_msg_buffer, m)) = Elements(recv_msg_buffer) \cup {m}
      BY <1>0, <1>7, <3>1
    <3>3. D = C
      <4>2. Len(WithoutIter) \in Nat
        BY <3>1
      <4>3. D = Len(handled) + Len(Offered) + (Len(recv_msg_buffer) + 1) + Len(WithoutIter)
        BY <2>1, <2>2, <2>4, <3>2, Zenon DEF D, Count
      <4>4. C = Len(handled) + Len(Offered) + Len(recv_msg_buffer) + (Len(WithoutIter) + 1)
        BY <3>1, Zenon DEF C, Count
      <4> QED
        BY <1>n, <4>2, <4>3, <4>4
    <3>4. I = H
      <4>1. I = Held(handled, Offered, Append(recv_msg_buffer, m), WithoutIter)
        BY <2>1, <2>2, <2>4, Zenon DEF I
      <4> QED
        BY <3>1, <3>2, <4>1 DEF H, Held
    <3> QED
      BY <1>1, <1>2, <2>1, <3>3, <3>4, Zenon
  <2> QED
    BY <1>9, <2>3, <2>4, Zenon DEF on_msg_false
<1>10. CASE splice_and_dispatch
  <2> DEFINE moved == SubSeq(temp_msg_buffer, 1, SpliceSize)
             left  == SubSeq(temp_msg_buffer, SpliceSize + 1, Len(temp_msg_buffer))
  <2>1. UNCHANGED <<open, arrived, discarded>>
    BY <1>10, Zenon DEF splice_and_dispatch, linkVars
  <2>2. CASE UNCHANGED <<bufferVars, armed, handled>>
    BY <1>3, <2>1, <2>2, Zenon
  <2>3. CASE do_dispatch_msg(recv_msg_buffer \o moved, left, dispatching, last_dispatch_msg, handler)
    <3>1. moved \in Seq(Msgs) /\ left \in Seq(Msgs) /\ moved \o left = temp_msg_buffer
      BY <1>0, SpliceType, TwoParts
    <3> HIDE DEF moved, left
    <3> DEFINE recv == recv_msg_buffer \o moved
    <3>2. recv \in Seq(Msgs) /\ Len(recv) = Len(recv_msg_buffer) + Len(moved)
          /\ Elements(recv) = Elements(recv_msg_buffer) \cup Elements(moved)
      BY <1>0, <3>1, ConcatElements
    <3>3. Len(temp_msg_buffer) = Len(moved) + Len(left) /\ Elements(temp_msg_buffer) = Elements(moved) \cup Elements(left)
      BY <3>1, ConcatElements
    <3>4. do_dispatch_msg(recv, left, dispatching, last_dispatch_msg, handler)
      BY <2>3
    <3> HIDE DEF recv
    <3>5. /\ D = Count(handled, Offered, recv, left) /\ I = Held(handled, Offered, recv, left)
          /\ open /\ handler' # "none" => dispatching'
      <4>1. Offered = IF handler \in {"posted", "refused"} THEN <<last_dispatch_msg>> ELSE <<>>
        BY Zenon DEF Offered
      <4> QED
        BY <1>0, <1>1, <3>1, <3>2, <3>4, <4>1, DispatchKeepsAll DEF D, I
    <3>6. Count(handled, Offered, recv, left) = C
      <4>2. Len(moved) \in Nat /\ Len(left) \in Nat
        BY <3>1
      <4>3. Count(handled, Offered, recv, left)
              = Len(handled) + Len(Offered) + (Len(recv_msg_buffer) + Len(moved)) + Len(left)
        BY <3>2, Zenon DEF Count
      <4>4. C = Len(handled) + Len(Offered) + Len(recv_msg_buffer) + (Len(moved) + Len(left))
        BY <3>3, Zenon DEF C, Count
      <4> QED
        BY <1>n, <4>2, <4>3, <4>4
    <3>7. Held(handled, Offered, recv, left) = H
      BY <3>2, <3>3 DEF H, Held
    <3> QED
      BY <1>1, <1>2, <2>1, <3>5, <3>6, <3>7, Zenon
  <2> QED
    BY <1>10, <2>2, <2>3, Zenon DEF splice_and_dispatch
<1>11. CASE on_msg_handle_true
  <2>1. /\ handler = "posted" /\ handler' = "accepted" /\ handled' = Append(handled, last_dispatch_msg)
        /\ temp_msg_buffer' = temp_msg_buffer /\ recv_msg_buffer' = recv_msg_buffer /\ arrived' = arrived
        /\ dispatching' = dispatching /\ open' = open /\ discarded' = discarded
    BY <1>11, Zenon DEF on_msg_handle_true, linkVars
  <2>2. Offered = <<last_dispatch_msg>> /\ Offered' = <<>> /\ last_dispatch_msg \in Msgs
    BY <1>0, <2>1 DEF Offered
  <2>3. /\ Len(Offered) = 1 /\ Elements(Offered) = {last_dispatch_msg}
        /\ Len(Offered') = 0 /\ Elements(Offered') = {}
    BY <2>2, ShortLines, Zenon
  <2>4. /\ Len(handled') = Len(handled) + 1
        /\ Elements(handled') = Elements(handled) \cup {last_dispatch_msg}
    BY <1>0, <1>7, <2>1, <2>2, Zenon
  <2>5. D = C
    <3>1. D = (Len(handled) + 1) + 0 + Len(recv_msg_buffer) + Len(temp_msg_buffer)
      BY <2>1, <2>3, <2>4, Zenon DEF D, Count
    <3>2. C = Len(handled) + 1 + Len(recv_msg_buffer) + Len(temp_msg_buffer)
      BY <2>3, Zenon DEF C, Count
    <3> QED
      BY <1>n, <3>1, <3>2
  <2>6. I = H
    <3>1. I = (Elements(handled) \cup {last_dispatch_msg}) \cup {} \cup Elements(recv_msg_buffer) \cup Elements(temp_msg_buffer)
      BY <2>1, <2>3, <2>4, Zenon DEF I, Held
    <3> QED
      BY <2>3, <3>1 DEF H, Held
  <2> QED
    BY <1>1, <1>2, <2>1, <2>5, <2>6
<1>12. CASE on_msg_handle_false
  <2>1. /\ handler = "posted" /\ handler' = "refused" /\ handled' = handled
        /\ temp_msg_buffer' = temp_msg_buffer /\ recv_msg_buffer' = recv_msg_buffer /\ arrived' = arrived
        /\ dispatching' = dispatching /\ open' = open /\ last_dispatch_msg' = last_dispatch_msg
        /\ discarded' = discarded
    BY <1>12, Zenon DEF on_msg_handle_false, linkVars
  <2>2. Offered' = Offered
    BY <2>1 DEF Offered
  <2>3. D = C /\ I = H
    BY <2>1, <2>2, Zenon DEF C, H, D, I
  <2> QED
    BY <1>1, <1>2, <2>1, <2>3
<1>13. CASE msg_handler_accepted
  <2>1. /\ do_dispatch_msg(recv_msg_buffer, temp_msg_buffer, FALSE, NoMsg, "none")
        /\ handler = "accepted" /\ UNCHANGED <<open, arrived, discarded>>
    BY <1>13, Zenon DEF msg_handler_accepted, linkVars
  <2>2. Offered = <<>> /\ Offered = (IF "none" \in {"posted", "refused"} THEN <<NoMsg>> ELSE <<>>)
    BY <2>1 DEF Offered
  <2> DEFINE busy == FALSE
             last == NoMsg
             state == "none"
  <2>3. /\ busy \in BOOLEAN /\ last \in Msgs \cup {NoMsg}
        /\ state \in {"none", "posted", "accepted", "refused"}
        /\ state \in {"posted", "refused"} => last \in Msgs
        /\ open /\ state # "none" => busy
        /\ do_dispatch_msg(recv_msg_buffer, temp_msg_buffer, busy, last, state)
        /\ Offered = IF state \in {"posted", "refused"} THEN <<last>> ELSE <<>>
    BY <2>1, <2>2
  <2> HIDE DEF busy, last, state
  <2>4. D = C /\ I = H /\ (open /\ handler' # "none" => dispatching')
    BY <1>0, <2>3, DispatchKeepsAll DEF C, H, D, I
  <2> QED
    BY <1>1, <1>2, <2>1, <2>4, Zenon
<1>14. CASE msg_handler_refused
  <2>1. /\ handler = "refused" /\ handler' = "none" /\ handled' = handled
        /\ recv_msg_buffer' = <<last_dispatch_msg>> \o recv_msg_buffer
        /\ temp_msg_buffer' = temp_msg_buffer /\ arrived' = arrived
        /\ open' = open /\ discarded' = discarded
    BY <1>14, Zenon DEF msg_handler_refused, linkVars
  <2>2. Offered = <<last_dispatch_msg>> /\ Offered' = <<>> /\ last_dispatch_msg \in Msgs
    BY <1>0, <2>1 DEF Offered
  <2>3. recv_msg_buffer' = Offered \o recv_msg_buffer /\ Len(Offered') = 0 /\ Elements(Offered') = {}
    BY <2>1, <2>2, ShortLines, Zenon
  <2>4. /\ Len(recv_msg_buffer') = Len(Offered) + Len(recv_msg_buffer)
        /\ Elements(recv_msg_buffer') = Elements(Offered) \cup Elements(recv_msg_buffer)
    BY <1>0, <2>3, ConcatElements
  <2>5. D = C
    <3>1. D = Len(handled) + 0 + (Len(Offered) + Len(recv_msg_buffer)) + Len(temp_msg_buffer)
      BY <2>1, <2>3, <2>4, Zenon DEF D, Count
    <3>2. C = Len(handled) + Len(Offered) + Len(recv_msg_buffer) + Len(temp_msg_buffer)
      BY Zenon DEF C, Count
    <3> QED
      BY <1>n, <3>1, <3>2
  <2>6. I = H
    <3>1. I = Elements(handled) \cup {} \cup (Elements(Offered) \cup Elements(recv_msg_buffer)) \cup Elements(temp_msg_buffer)
      BY <2>1, <2>3, <2>4, Zenon DEF I, Held
    <3> QED
      BY <3>1 DEF H, Held
  <2> QED
    BY <1>1, <1>2, <2>1, <2>5, <2>6, Zenon
<1>15. CASE receiver_dispatches \/ \E id \in TimerIds : on_timer_dispatch(id)
  BY <1>4, <1>15, Zenon DEF receiver_dispatches, on_timer_dispatch, linkVars
<1>16. CASE on_timer_0 \/ loop_ends \/ dispatch_msg_ends
  BY <1>3, <1>16, Zenon DEF on_timer_0, loop_ends, dispatch_msg_ends, linkVars
<1>17. ASSUME NEW t \in Threads, Call(t) PROVE OnceInv'
  BY <1>3, <1>4, <1>17, Zenon DEF Call, suspend_dispatch_msg, thread_dispatches, post_ends, linkVars
<1>18. CASE post_begins \/ data_arrives \/ peer_closes \/ \E id \in TimerIds : timer_expires(id)
  BY <1>3, <1>18, Zenon DEF post_begins, data_arrives, peer_closes, timer_expires, linkVars
<1>19. CASE force_close \/ on_recv_error
  <2>1. /\ temp_msg_buffer' = temp_msg_buffer /\ recv_msg_buffer' = recv_msg_buffer /\ handled' = handled
        /\ arrived' = arrived /\ handler' = handler /\ last_dispatch_msg' = last_dispatch_msg
        /\ discarded' = discarded
    BY <1>19, Zenon DEF force_close, on_recv_error
  <2>2. open' = FALSE \/ (open' = open /\ dispatching' = dispatching)
    BY <1>19, Zenon DEF force_close, on_recv_error, clean_up
  <2>3. Offered' = Offered
    BY <2>1, Zenon DEF Offered
  <2>4. D = C /\ I = H
    BY <2>1, <2>3, Zenon DEF C, H, D, I
  <2> QED
    BY <1>1, <1>2, <2>1, <2>2, <2>4, Zenon
<1>19r. CASE reset
  <2>1. /\ discarded' = discarded \o recv_msg_buffer \o temp_msg_buffer
        /\ recv_msg_buffer' = <<>> /\ temp_msg_buffer' = <<>> /\ ~open /\ open' = open
        /\ handled' = handled /\ arrived' = arrived
        /\ handler' = handler /\ last_dispatch_msg' = last_dispatch_msg
    BY <1>19r, Zenon DEF reset
  <2>2. Offered' = Offered
    BY <2>1, Zenon DEF Offered
  <2>3. Len(<<>>) = 0 /\ Elements(<<>>) = {}
    BY DEF Elements
  <2> DEFINE some == discarded \o recv_msg_buffer
  <2>4. /\ some \in Seq(Msgs) /\ Len(some) = Len(discarded) + Len(recv_msg_buffer)
        /\ Elements(some) = Elements(discarded) \cup Elements(recv_msg_buffer)
    BY <1>0, ConcatElements
  <2>5. discarded' = some \o temp_msg_buffer
    BY <2>1
  <2> HIDE DEF some
  <2>6. /\ Len(discarded') = Len(discarded) + Len(recv_msg_buffer) + Len(temp_msg_buffer)
        /\ Elements(discarded') = Elements(discarded) \cup Elements(recv_msg_buffer) \cup Elements(temp_msg_buffer)
    BY <1>0, <2>4, <2>5, ConcatElements, Zenon
  <2>7. D + Len(discarded') = Len(arrived')
    <3>1. C = Len(handled) + Len(Offered) + Len(recv_msg_buffer) + Len(temp_msg_buffer)
      BY Zenon DEF C, Count
    <3>2. D = Len(handled) + Len(Offered) + 0 + 0
      BY <2>1, <2>2, <2>3, Zenon DEF D, Count
    <3>3. Len(discarded) \in Nat /\ Len(arrived) \in Nat
      BY <1>0
    <3>4. D + (Len(discarded) + Len(recv_msg_buffer) + Len(temp_msg_buffer)) = Len(arrived)
      BY <1>1, <1>n, <3>1, <3>2, <3>3
    <3> QED
      BY <2>1, <2>6, <3>4, Zenon
  <2>8. I \cup Elements(discarded') = Elements(arrived')
    <3>1. I = Elements(handled) \cup Elements(Offered) \cup {} \cup {}
      BY <2>1, <2>2, <2>3, Zenon DEF I, Held
    <3>2. I \cup (Elements(discarded) \cup Elements(recv_msg_buffer) \cup Elements(temp_msg_buffer))
            = H \cup Elements(discarded)
      BY <3>1 DEF H, Held
    <3> QED
      BY <1>1, <2>1, <2>6, <3>2, Zenon
  <2> QED
    BY <1>1a, <2>1, <2>7, <2>8, Zenon
<1>20. CASE UNCHANGED vars
  BY <1>3, <1>20, Zenon DEF vars, linkVars
<1>21. CASE Next
  BY <1>5, <1>8, <1>9, <1>10, <1>11, <1>12, <1>13, <1>14, <1>15, <1>16, <1>17, <1>18, <1>19, <1>19r, <1>21, Zenon
     DEF Next, Receive, Dispatch, Others
<1> QED
  BY <1>20, <1>21

(***************************************************************************)
(* Every message is in one place and handled at most once, and none is     *)
(* lost but those that a closed socket holds when it is reset (EachOnce),  *)
(* for every set of threads and messages, every capacity, with and without *)
(* FORCE_TO_USE_MSG_RECV_BUFFER, whatever on_msg and on_msg_handle return  *)
(* and whenever the link is closed: in particular when clean_up resets     *)
(* dispatching under a msg_handler that is under way.                      *)
(***************************************************************************)
THEOREM EachOnceHolds == Spec => []EachOnce
<1>1. Init => OnceInv
  <2> SUFFICES ASSUME Init PROVE OnceInv
    OBVIOUS
  <2>1. /\ handled = <<>> /\ recv_msg_buffer = <<>> /\ temp_msg_buffer = <<>> /\ arrived = <<>>
        /\ handler = "none" /\ discarded = <<>>
    BY DEF Init
  <2>2. Offered = <<>>
    BY <2>1 DEF Offered
  <2>3. <<>> \o <<>> \o <<>> \o <<>> = <<>> /\ Len(<<>>) + Len(<<>>) = Len(<<>>)
        /\ Elements(<<>>) \cup Elements(<<>>) = Elements(<<>>)
    OBVIOUS
  <2> QED
    BY <2>1, <2>2, <2>3, Zenon DEF OnceInv, EachOnce
<1>2. TypeOK /\ OnceInv /\ [Next]_vars => OnceInv'
  BY OnceStep
<1>3. OnceInv => EachOnce
  BY DEF OnceInv
<1> QED
  BY <1>1, <1>2, <1>3, RecvTypeCorrect, PTL DEF Spec

=============================================================================
