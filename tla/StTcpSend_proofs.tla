-------------------------- MODULE StTcpSend_proofs --------------------------
(***************************************************************************)
(* The sending half of a wrapper socket, for every set of threads and of   *)
(* messages, with suspensions and any number of reconnections.             *)
(***************************************************************************)
EXTENDS StTcpSend, SequenceTheorems, TLAPS

\* Taking the front of a buffer gives a message and leaves a buffer.
LEMMA FrontOfBuffer ==
    ASSUME NEW S, NEW q \in Seq(S), q # <<>>
    PROVE  Head(q) \in S /\ Tail(q) \in Seq(S)
  OBVIOUS

\* do_send_msg keeps the types of what it assigns.
LEMMA DoSendType ==
    ASSUME TypeOK, NEW buffer \in Seq(Msgs), NEW busy \in BOOLEAN, NEW allowed \in BOOLEAN,
           do_send_msg(buffer, busy, allowed)
    PROVE  /\ send_msg_buffer' \in Seq(Msgs)
           /\ sending' \in BOOLEAN
           /\ last_send_msg' \in Msgs \cup {NoMsg}
           /\ writes' \in [Msgs -> Writes]
<1>1. buffer # <<>> => Head(buffer) \in Msgs /\ Tail(buffer) \in Seq(Msgs)
  BY FrontOfBuffer
<1>2. writes \in [Msgs -> Writes] /\ last_send_msg \in Msgs \cup {NoMsg}
  BY DEF TypeOK
<1>3. CASE ~allowed
  BY <1>2, <1>3 DEF do_send_msg
<1>4. CASE allowed /\ (busy \/ buffer = <<>>)
  BY <1>2, <1>4 DEF do_send_msg
<1>5. CASE allowed /\ ~busy /\ buffer # <<>>
  BY <1>1, <1>2, <1>5 DEF do_send_msg, Writes
<1> QED
  BY <1>3, <1>4, <1>5

\* is_send_allowed is a Boolean.
LEMMA AllowedType == TypeOK => is_send_allowed \in BOOLEAN
  BY DEF is_send_allowed, TypeOK

\* The part of post_msg_buffer that on_timer moves, and the part it leaves.
LEMMA SpliceType ==
    ASSUME TypeOK
    PROVE  /\ SpliceSize \in 0..Len(post_msg_buffer)
           /\ SubSeq(post_msg_buffer, 1, SpliceSize) \in Seq(Msgs)
           /\ SubSeq(post_msg_buffer, SpliceSize + 1, Len(post_msg_buffer)) \in Seq(Msgs)
<1>1. /\ Len(send_msg_buffer) \in Nat /\ Len(post_msg_buffer) \in Nat
      /\ post_msg_buffer \in Seq(Msgs)
  BY DEF TypeOK
<1>2. SpliceSize \in 0..Len(post_msg_buffer)
  BY <1>1, SendAssumption DEF SpliceSize, is_send_buffer_available
<1>3. ASSUME NEW n \in 0..Len(post_msg_buffer)
      PROVE  /\ SubSeq(post_msg_buffer, 1, n) \in Seq(Msgs)
             /\ SubSeq(post_msg_buffer, n + 1, Len(post_msg_buffer)) \in Seq(Msgs)
  BY <1>1, <1>3
<1> QED
  BY <1>2, <1>3

-----------------------------------------------------------------------------
\* Each step keeps the types of the variables.
LEMMA SendTypeStep == TypeOK /\ [Next]_vars => TypeOK'
<1> SUFFICES ASSUME TypeOK, [Next]_vars PROVE TypeOK'
  OBVIOUS
<1>0. is_send_allowed \in BOOLEAN
  BY AllowedType
<1> USE SendAssumption
<1>1. ASSUME NEW t \in Threads, NEW m \in Msgs, direct_send_msg(t, m) PROVE TypeOK'
  <2>1. Append(send_msg_buffer, m) \in Seq(Msgs) /\ sending \in BOOLEAN
    BY DEF TypeOK
  <2>2. do_send_msg(Append(send_msg_buffer, m), sending, is_send_allowed)
    BY <1>1 DEF direct_send_msg
  <2>3. taken' \in Seq(Msgs)
    BY <1>1 DEF direct_send_msg, TypeOK
  <2> QED
    BY <1>0, <1>1, <2>1, <2>2, <2>3, DoSendType
       DEF direct_send_msg, TypeOK, postVars, linkVars, callVars
<1>2. ASSUME NEW t \in Threads, NEW m \in Msgs, post_finds_full(t, m) PROVE TypeOK'
  BY <1>2 DEF post_finds_full, TypeOK, bufferVars, postVars, linkVars
<1>3. ASSUME NEW t \in Threads, do_direct_post_msg(t) PROVE TypeOK'
  <2>1. post_msg_buffer' \in Seq(Msgs)
    BY <1>3 DEF do_direct_post_msg, TypeOK
  <2>2. timer' \in Timers
    BY <1>3 DEF do_direct_post_msg, TypeOK, Timers
  <2> QED
    BY <1>3, <2>1, <2>2 DEF do_direct_post_msg, TypeOK, bufferVars, linkVars
<1>4. ASSUME NEW t \in Threads, suspend(t) PROVE TypeOK'
  BY <1>4 DEF suspend, TypeOK, bufferVars, postVars, linkVars, callVars
<1>5. ASSUME NEW t \in Threads, resume(t) PROVE TypeOK'
  BY <1>5 DEF resume, TypeOK, bufferVars, postVars, linkVars
<1>6. ASSUME NEW t \in Threads, send_msg(t) PROVE TypeOK'
  <2>1. send_msg_buffer \in Seq(Msgs) /\ sending \in BOOLEAN
    BY DEF TypeOK
  <2>2. do_send_msg(send_msg_buffer, sending, is_send_allowed)
    BY <1>6 DEF send_msg
  <2> QED
    BY <1>0, <1>6, <2>1, <2>2, DoSendType DEF send_msg, TypeOK, postVars, linkVars
<1>7. ASSUME NEW t \in Threads, connect_handler(t) PROVE TypeOK'
  BY <1>7 DEF connect_handler, TypeOK, bufferVars, postVars
<1>8. ASSUME clean_up PROVE /\ timer' \in Timers /\ posting' \in BOOLEAN /\ sending' \in BOOLEAN
                            /\ suspend_send_msg_' \in BOOLEAN /\ writes' \in [Msgs -> Writes]
  BY <1>8 DEF clean_up, TypeOK, Timers, Writes
<1>9. ASSUME NEW t \in Threads, force_close(t) PROVE TypeOK'
  <2>1. clean_up
    BY <1>9 DEF force_close
  <2>2. losses' \in Nat
    BY <1>9 DEF force_close, TypeOK
  <2>3. /\ timer' \in Timers /\ posting' \in BOOLEAN /\ sending' \in BOOLEAN
        /\ suspend_send_msg_' \in BOOLEAN /\ writes' \in [Msgs -> Writes]
    BY <1>8, <2>1
  <2> QED
    BY <1>9, <2>2, <2>3 DEF force_close, TypeOK, callVars
<1>10. CASE on_timer_2
  <2> DEFINE moved == SubSeq(post_msg_buffer, 1, SpliceSize)
             left  == SubSeq(post_msg_buffer, SpliceSize + 1, Len(post_msg_buffer))
  <2>1. moved \in Seq(Msgs) /\ left \in Seq(Msgs)
    BY SpliceType
  <2>2. /\ post_msg_buffer' = left /\ taken' = taken \o moved
        /\ posting' = (left # <<>>)
        /\ timer' = [timer EXCEPT !.queued = @ - 1, !.armed = @ \/ (left # <<>> /\ timer.ok)]
        /\ timer.queued > 0
        /\ \/ do_send_msg(send_msg_buffer \o moved, sending, is_send_allowed)
           \/ UNCHANGED bufferVars
    BY <1>10 DEF on_timer_2
  <2> HIDE DEF moved, left
  <2>3. /\ send_msg_buffer' \in Seq(Msgs) /\ sending' \in BOOLEAN
        /\ last_send_msg' \in Msgs \cup {NoMsg} /\ writes' \in [Msgs -> Writes]
    <3>1. send_msg_buffer \o moved \in Seq(Msgs) /\ sending \in BOOLEAN
      BY <2>1 DEF TypeOK
    <3> QED
      BY <1>0, <2>2, <3>1, DoSendType DEF TypeOK, bufferVars
  <2>4. post_msg_buffer' \in Seq(Msgs) /\ taken' \in Seq(Msgs) /\ posting' \in BOOLEAN
    BY <2>1, <2>2 DEF TypeOK
  <2>5. timer' \in Timers
    <3>1. timer \in Timers /\ timer.queued - 1 \in Nat
      BY <2>2 DEF TypeOK, Timers
    <3>2. (timer.armed \/ (left # <<>> /\ timer.ok)) \in BOOLEAN
      BY Zenon
    <3> QED
      BY <2>2, <3>1, <3>2 DEF Timers
  <2> QED
    BY <1>10, <2>3, <2>4, <2>5 DEF on_timer_2, TypeOK, linkVars, callVars
<1>11. ASSUME NEW m \in Msgs, send_handler_ok(m) PROVE TypeOK'
  <2>1. send_msg_buffer # <<>> => Head(send_msg_buffer) \in Msgs /\ Tail(send_msg_buffer) \in Seq(Msgs)
    BY FrontOfBuffer DEF TypeOK
  <2>2. send_msg_buffer' \in Seq(Msgs) /\ sending' \in BOOLEAN /\ last_send_msg' \in Msgs \cup {NoMsg}
    BY <1>11, <2>1 DEF send_handler_ok, TypeOK
  <2>3. writes' \in [Msgs -> Writes]
    BY <1>11, <2>1 DEF send_handler_ok, TypeOK, Writes
  <2> QED
    BY <1>11, <2>2, <2>3 DEF send_handler_ok, TypeOK, postVars, linkVars, callVars
<1>12. ASSUME NEW m \in Msgs, send_handler_err(m) PROVE TypeOK'
  BY <1>12 DEF send_handler_err, TypeOK, Writes, postVars, linkVars, callVars
<1>13. CASE on_recv_error
  BY <1>8, <1>13 DEF on_recv_error, TypeOK, callVars
<1>14. CASE link_breaks
  BY <1>14 DEF link_breaks, TypeOK, bufferVars, postVars, callVars
<1>15. ASSUME NEW m \in Msgs, write_completes(m) PROVE TypeOK'
  <2>1. sent' \in Seq(Msgs \cup {NoMsg})
    BY <1>15 DEF write_completes, TypeOK
  <2>2. writes' \in [Msgs -> Writes]
    BY <1>15 DEF write_completes, TypeOK, Writes
  <2> QED
    BY <1>15, <2>1, <2>2 DEF write_completes, TypeOK, postVars, linkVars, callVars
<1>16. CASE timer_expires
  <2>1. timer' \in Timers
    <3>1. timer \in Timers /\ timer.queued + 1 \in Nat
      BY DEF TypeOK, Timers
    <3> QED
      BY <1>16, <3>1 DEF timer_expires, Timers
  <2> QED
    BY <1>16, <2>1 DEF timer_expires, TypeOK, bufferVars, linkVars, callVars
<1>17. CASE UNCHANGED vars
  BY <1>17 DEF vars, TypeOK, bufferVars, postVars, linkVars, callVars
<1>18. ASSUME NEW t \in Threads, Call(t) PROVE TypeOK'
  BY <1>1, <1>2, <1>3, <1>4, <1>5, <1>6, <1>7, <1>9, <1>18 DEF Call
<1>19. CASE Handler
  BY <1>10, <1>11, <1>12, <1>13, <1>19 DEF Handler
<1>20. CASE Runtime
  BY <1>14, <1>15, <1>16, <1>20 DEF Runtime
<1> QED
  BY <1>17, <1>18, <1>19, <1>20 DEF Next

(***************************************************************************)
(* Every variable of the sending half keeps its type, and a thread between *)
(* the two locks of direct_post_msg has the message it is posting.         *)
(***************************************************************************)
THEOREM SendTypeCorrect == Spec => []TypeOK
<1>1. Init => TypeOK
  <2> SUFFICES ASSUME Init PROVE TypeOK
    OBVIOUS
  <2>1. timer \in Timers
    BY DEF Init, Timers
  <2>2. writes \in [Msgs -> Writes]
    BY DEF Init, Writes
  <2>3. /\ send_msg_buffer \in Seq(Msgs) /\ post_msg_buffer \in Seq(Msgs)
        /\ taken \in Seq(Msgs) /\ sent \in Seq(Msgs \cup {NoMsg})
    BY DEF Init
  <2>4. /\ pc \in [Threads -> {"idle", "post", "send_msg"}]
        /\ arg \in [Threads -> Msgs \cup {NoMsg}]
        /\ \A t \in Threads : pc[t] # "post"
    BY DEF Init
  <2> QED
    BY <2>1, <2>2, <2>3, <2>4 DEF Init, TypeOK
<1>2. TypeOK /\ [Next]_vars => TypeOK'
  BY SendTypeStep
<1> QED
  BY <1>1, <1>2, PTL DEF Spec

-----------------------------------------------------------------------------
\* do_send_msg leaves "sending" only with a write, and a buffer that it was
\* allowed to send from only behind one; it takes no write away.
LEMMA DoSendStarts ==
    ASSUME TypeOK, NEW buffer \in Seq(Msgs), NEW busy \in BOOLEAN, NEW allowed \in BOOLEAN,
           do_send_msg(buffer, busy, allowed)
    PROVE  /\ sending' => allowed /\ (busy \/ Outstanding')
           /\ allowed /\ send_msg_buffer' # <<>> => busy \/ Outstanding'
           /\ Outstanding => Outstanding'
<1>1. buffer # <<>> => Head(buffer) \in Msgs
  BY FrontOfBuffer
<1>2. writes \in [Msgs -> Writes]
  BY DEF TypeOK
<1>3. CASE ~allowed
  BY <1>2, <1>3 DEF do_send_msg, Outstanding
<1>4. CASE allowed /\ (busy \/ buffer = <<>>)
  BY <1>2, <1>4 DEF do_send_msg, Outstanding
<1>5. CASE allowed /\ ~busy /\ buffer # <<>>
  <2>1. writes' = [writes EXCEPT ![Head(buffer)] = "io"] /\ sending' = TRUE
    BY <1>5 DEF do_send_msg
  <2>2. writes'[Head(buffer)] = "io"
    BY <1>1, <1>2, <1>5, <2>1
  <2>3. Outstanding'
    BY <1>1, <1>5, <2>2 DEF Outstanding
  <2> QED
    BY <1>5, <2>3
<1> QED
  BY <1>3, <1>4, <1>5

\* An action that calls do_send_msg and leaves the link and the threads alone
\* keeps the invariant.
LEMMA DoSendKeepsInv ==
    ASSUME TypeOK, SendInv, NEW buffer \in Seq(Msgs),
           do_send_msg(buffer, sending, is_send_allowed),
           UNCHANGED <<linkVars, suspend_send_msg_>>
    PROVE  SendInv'
<1>1. is_send_allowed \in BOOLEAN /\ sending \in BOOLEAN
  BY AllowedType DEF TypeOK
<1>2. /\ sending' => is_send_allowed /\ (sending \/ Outstanding')
      /\ is_send_allowed /\ send_msg_buffer' # <<>> => sending \/ Outstanding'
      /\ Outstanding => Outstanding'
  BY <1>1, DoSendStarts
<1>3. is_send_allowed' = is_send_allowed /\ link' = link /\ connected' = connected
  BY DEF is_send_allowed, linkVars
<1>4. sending /\ link = "up" => Outstanding
  BY DEF SendInv, SendingHasWrite
<1>5. SendingHasWrite'
  BY <1>2, <1>3, <1>4 DEF SendingHasWrite
<1>6. SendNotStuck'
  BY <1>2, <1>3, <1>4 DEF SendNotStuck
<1>7. FlagsFollowLink'
  BY <1>2, <1>3 DEF SendInv, FlagsFollowLink, is_send_allowed, linkVars
<1> QED
  BY <1>5, <1>6, <1>7 DEF SendInv

\* Each step keeps the invariant.
LEMMA SendInvStep == TypeOK /\ SendInv /\ [Next]_vars => SendInv'
<1> SUFFICES ASSUME TypeOK, SendInv, [Next]_vars PROVE SendInv'
  OBVIOUS
<1>0. /\ send_msg_buffer \in Seq(Msgs) /\ sending \in BOOLEAN
      /\ writes \in [Msgs -> Writes] /\ pc \in [Threads -> {"idle", "post", "send_msg"}]
  BY DEF TypeOK
<1> DEFINE Same == UNCHANGED <<bufferVars, linkVars, suspend_send_msg_>>
<1>1. ASSUME Same, \A t \in Threads : pc[t] = "send_msg" => pc'[t] = "send_msg" PROVE SendInv'
  BY <1>1 DEF SendInv, SendNotStuck, SendingHasWrite, FlagsFollowLink, Outstanding,
              is_send_allowed, bufferVars, linkVars
<1>2. ASSUME NEW t \in Threads, NEW m \in Msgs, direct_send_msg(t, m) PROVE SendInv'
  <2>1. Append(send_msg_buffer, m) \in Seq(Msgs)
    BY <1>0
  <2> QED
    BY <1>2, <2>1, DoSendKeepsInv DEF direct_send_msg
<1>3. ASSUME NEW t \in Threads, NEW m \in Msgs, post_finds_full(t, m) PROVE SendInv'
  BY <1>0, <1>1, <1>3 DEF post_finds_full
<1>4. ASSUME NEW t \in Threads, do_direct_post_msg(t) PROVE SendInv'
  BY <1>0, <1>1, <1>4 DEF do_direct_post_msg
<1>5. ASSUME NEW t \in Threads, suspend(t) PROVE SendInv'
  BY <1>5 DEF suspend, SendInv, SendNotStuck, SendingHasWrite, FlagsFollowLink, Outstanding,
              is_send_allowed, bufferVars, linkVars
<1>6. ASSUME NEW t \in Threads, resume(t) PROVE SendInv'
  <2>1. pc'[t] = "send_msg"
    BY <1>0, <1>6 DEF resume
  <2>2. SendNotStuck'
    BY <2>1 DEF SendNotStuck
  <2> QED
    BY <1>6, <2>2 DEF resume, SendInv, SendingHasWrite, FlagsFollowLink, Outstanding,
                      bufferVars, linkVars
<1>7. ASSUME NEW t \in Threads, send_msg(t) PROVE SendInv'
  BY <1>0, <1>7, DoSendKeepsInv DEF send_msg
<1>8. ASSUME NEW t \in Threads, connect_handler(t) PROVE SendInv'
  <2>1. pc'[t] = "send_msg"
    BY <1>0, <1>8 DEF connect_handler
  <2>2. SendNotStuck'
    BY <2>1 DEF SendNotStuck
  <2>3. ~sending
    BY <1>8 DEF connect_handler, SendInv, FlagsFollowLink
  <2> QED
    BY <1>8, <2>2, <2>3 DEF connect_handler, SendInv, SendingHasWrite, FlagsFollowLink, bufferVars
<1>9. ASSUME NEW t \in Threads, force_close(t) PROVE SendInv'
  BY <1>9 DEF force_close, clean_up, SendInv, SendNotStuck, SendingHasWrite, FlagsFollowLink
<1>10. CASE on_timer_2
  <2> DEFINE moved == SubSeq(post_msg_buffer, 1, SpliceSize)
  <2>1. /\ do_send_msg(send_msg_buffer \o moved, sending, is_send_allowed) \/ UNCHANGED bufferVars
        /\ UNCHANGED <<linkVars, suspend_send_msg_>> /\ UNCHANGED pc
    BY <1>10 DEF on_timer_2, callVars
  <2>2. moved \in Seq(Msgs)
    BY SpliceType
  <2>3. send_msg_buffer \o moved \in Seq(Msgs)
    BY <1>0, <2>2
  <2> HIDE DEF moved
  <2>4. CASE UNCHANGED bufferVars
    BY <1>1, <2>1, <2>4
  <2>5. CASE do_send_msg(send_msg_buffer \o moved, sending, is_send_allowed)
    BY <2>1, <2>3, <2>5, DoSendKeepsInv
  <2> QED
    BY <2>1, <2>4, <2>5
<1>11. ASSUME NEW m \in Msgs, send_handler_ok(m) PROVE SendInv'
  <2>1. UNCHANGED <<linkVars, suspend_send_msg_>>
    BY <1>11 DEF send_handler_ok
  <2>2. CASE ~is_send_allowed \/ send_msg_buffer = <<>>
    <3>1. sending' = FALSE /\ send_msg_buffer' = send_msg_buffer
      BY <1>11, <2>2 DEF send_handler_ok
    <3> QED
      BY <2>1, <2>2, <3>1 DEF SendInv, SendNotStuck, SendingHasWrite, FlagsFollowLink,
                              is_send_allowed, linkVars
  <2>3. CASE is_send_allowed /\ send_msg_buffer # <<>>
    <3>1. Head(send_msg_buffer) \in Msgs
      BY <1>0, <2>3, FrontOfBuffer
    <3>2. writes' = [writes EXCEPT ![m] = "done", ![Head(send_msg_buffer)] = "io"]
      BY <1>11, <2>3 DEF send_handler_ok
    <3>3. writes'[Head(send_msg_buffer)] = "io"
      BY <1>0, <3>1, <3>2
    <3>4. Outstanding'
      BY <3>1, <3>3 DEF Outstanding
    <3> QED
      BY <2>1, <2>3, <3>4 DEF SendInv, SendNotStuck, SendingHasWrite, FlagsFollowLink,
                              is_send_allowed, linkVars
  <2> QED
    BY <2>2, <2>3
<1>12. ASSUME NEW m \in Msgs, send_handler_err(m) PROVE SendInv'
  <2>1. /\ sending' = FALSE /\ writes[m] = "err" /\ writes' = [writes EXCEPT ![m] = "done"]
        /\ UNCHANGED <<linkVars, suspend_send_msg_, send_msg_buffer, pc>>
    BY <1>12 DEF send_handler_err, callVars
  <2>2. Outstanding => Outstanding'
    BY <1>0, <2>1 DEF Outstanding
  <2> QED
    BY <2>1, <2>2 DEF SendInv, SendNotStuck, SendingHasWrite, FlagsFollowLink,
                      is_send_allowed, linkVars
<1>13. CASE on_recv_error
  <2>1. link' = "connecting" /\ close_state' = 0
    BY <1>13 DEF on_recv_error
  <2>2. CASE close_state # 1
    <3>1. connected' = FALSE /\ sending' = FALSE
      BY <1>13, <2>2 DEF on_recv_error, clean_up
    <3> QED
      BY <2>1, <3>1 DEF SendInv, SendNotStuck, SendingHasWrite, FlagsFollowLink
  <2>3. CASE close_state = 1
    <3>1. connected' = connected /\ sending' = sending
      BY <1>13, <2>3 DEF on_recv_error
    <3>2. link = "closed"
      BY <2>3 DEF SendInv, FlagsFollowLink
    <3> QED
      BY <2>1, <3>1, <3>2 DEF SendInv, SendNotStuck, SendingHasWrite, FlagsFollowLink
  <2> QED
    BY <2>2, <2>3
<1>14. CASE link_breaks
  BY <1>14 DEF link_breaks, SendInv, SendNotStuck, SendingHasWrite, FlagsFollowLink, bufferVars
<1>15. ASSUME NEW m \in Msgs, write_completes(m) PROVE SendInv'
  <2>1. UNCHANGED <<linkVars, suspend_send_msg_, send_msg_buffer, sending, pc>>
    BY <1>15 DEF write_completes, callVars
  <2>2. link = "up" /\ Outstanding => Outstanding'
    <3> SUFFICES ASSUME link = "up", Outstanding PROVE Outstanding'
      OBVIOUS
    <3>1. writes'[m] = "ok"
      BY <1>0, <1>15 DEF write_completes
    <3> QED
      BY <3>1 DEF Outstanding
  <2> QED
    BY <2>1, <2>2 DEF SendInv, SendNotStuck, SendingHasWrite, FlagsFollowLink,
                      is_send_allowed, linkVars
<1>16. CASE timer_expires
  BY <1>1, <1>16 DEF timer_expires, callVars
<1>17. CASE UNCHANGED vars
  BY <1>1, <1>17 DEF vars, callVars
<1> HIDE DEF Same
<1>18. ASSUME NEW t \in Threads, Call(t) PROVE SendInv'
  BY <1>2, <1>3, <1>4, <1>5, <1>6, <1>7, <1>8, <1>9, <1>18 DEF Call
<1>19. CASE Handler
  BY <1>10, <1>11, <1>12, <1>13, <1>19 DEF Handler
<1>20. CASE Runtime
  BY <1>14, <1>15, <1>16, <1>20 DEF Runtime
<1> QED
  BY <1>17, <1>18, <1>19, <1>20 DEF Next

(***************************************************************************)
(* The send buffer is never left alone while sending is possible: through  *)
(* suspensions, lost links, reconnections and handlers of an earlier link, *)
(* do_send_msg, send_handler and connect_handler always leave a write or a *)
(* thread that will come back to it.                                       *)
(***************************************************************************)
THEOREM SendBufferIsServed == Spec => []SendNotStuck
<1>1. Init => SendInv
  BY DEF Init, SendInv, SendNotStuck, SendingHasWrite, FlagsFollowLink
<1>2. TypeOK /\ SendInv /\ [Next]_vars => SendInv'
  BY SendInvStep
<1>3. SendInv => SendNotStuck
  BY DEF SendInv
<1> QED
  BY <1>1, <1>2, <1>3, SendTypeCorrect, PTL DEF Spec
-----------------------------------------------------------------------------
(***************************************************************************)
(* The order of what is sent, on one link and without suspensions: both a  *)
(* suspension and a lost link let do_send_msg reset sending under a write, *)
(* and then two are under way (StSendSuspend.cfg, StSendReconnect.cfg).    *)
(*                                                                         *)
(* The message under way has left send_msg_buffer and is not yet sent.     *)
(* The invariant: there is at most one, last_send_msg keeps its memory,    *)
(* and until its handler has run sending stays set; and the messages sent, *)
(* under way and in the buffer are, in this order, all that were taken.    *)
(***************************************************************************)
UnderWay == IF \E m \in Msgs : writes[m] = "io" THEN <<last_send_msg>> ELSE <<>>

OneLink ==
    /\ link \in {"connecting", "up"} /\ close_state = 0 /\ losses = 0
    /\ ~suspend_send_msg_

OwnWrite ==
    /\ \A m \in Msgs : writes[m] \in {"io", "ok"} => last_send_msg = m /\ sending
    /\ \A m \in Msgs : writes[m] # "err"

SendLine == sent \o UnderWay \o send_msg_buffer = taken

LineInv == OneLink /\ OwnWrite /\ SendLine

\* The message and what is behind it are the buffer.
LEMMA FrontFirst ==
    ASSUME NEW S, NEW q \in Seq(S), q # <<>>
    PROVE  <<Head(q)>> \in Seq(S) /\ <<Head(q)>> \o Tail(q) = q
  OBVIOUS

\* A message put at the end of a buffer.
LEMMA AppendAsConcat ==
    ASSUME NEW S, NEW q \in Seq(S), NEW m \in S
    PROVE  <<m>> \in Seq(S) /\ Append(q, m) = q \o <<m>>
  OBVIOUS

\* Two lines, one behind the other, begin with the first.
LEMMA ConcatPrefix ==
    ASSUME NEW S, NEW q \in Seq(S), NEW r \in Seq(S)
    PROVE  Len(q \o r) = Len(q) + Len(r) /\ \A i \in 1..Len(q) : (q \o r)[i] = q[i]
  OBVIOUS

\* The types of the lines.
LEMMA LineTypes ==
    ASSUME TypeOK
    PROVE  LET S == Msgs \cup {NoMsg} IN
           /\ sent \in Seq(S) /\ UnderWay \in Seq(S) /\ send_msg_buffer \in Seq(S)
           /\ taken \in Seq(S) /\ send_msg_buffer \in Seq(Msgs) /\ taken \in Seq(Msgs)
<1> DEFINE S == Msgs \cup {NoMsg}
<1>1. /\ send_msg_buffer \in Seq(Msgs) /\ taken \in Seq(Msgs) /\ sent \in Seq(S)
      /\ last_send_msg \in S
  BY DEF TypeOK
<1>2. send_msg_buffer \in Seq(S) /\ taken \in Seq(S)
  BY <1>1
<1>3. <<last_send_msg>> \in Seq(S) /\ <<>> \in Seq(S)
  BY <1>1
<1>4. UnderWay \in Seq(S)
  BY <1>3, Zenon DEF UnderWay
<1> QED
  BY <1>1, <1>2, <1>4, Zenon

\* do_send_msg takes the front message only when none is under way.
LEMMA DoSendKeepsLine ==
    ASSUME TypeOK, OwnWrite, sending => is_send_allowed,
           NEW buffer \in Seq(Msgs),
           do_send_msg(buffer, sending, is_send_allowed), UNCHANGED sent
    PROVE  /\ OwnWrite'
           /\ sent' \o UnderWay' \o send_msg_buffer' = sent \o UnderWay \o buffer
<1> DEFINE S == Msgs \cup {NoMsg}
<1>0. /\ writes \in [Msgs -> Writes] /\ sending \in BOOLEAN /\ sent \in Seq(S)
      /\ is_send_allowed \in BOOLEAN
  BY AllowedType DEF TypeOK
<1>1. CASE ~is_send_allowed \/ sending \/ buffer = <<>>
  <2>1. /\ send_msg_buffer' = buffer /\ writes' = writes /\ last_send_msg' = last_send_msg
    BY <1>1, Zenon DEF do_send_msg
  <2>2. sending => sending'
    BY <1>0, <1>1 DEF do_send_msg
  <2>3. OwnWrite'
    BY <2>1, <2>2, Zenon DEF OwnWrite
  <2>4. UnderWay' = UnderWay
    BY <2>1, Zenon DEF UnderWay
  <2> QED
    BY <2>1, <2>3, <2>4, Zenon
<1>2. CASE is_send_allowed /\ ~sending /\ buffer # <<>>
  <2> DEFINE f == Head(buffer)
  <2>1. /\ sending' = TRUE /\ send_msg_buffer' = Tail(buffer) /\ last_send_msg' = f
        /\ writes' = [writes EXCEPT ![f] = "io"]
    BY <1>2, Zenon DEF do_send_msg
  <2>2. f \in Msgs /\ Tail(buffer) \in Seq(Msgs) /\ <<f>> \in Seq(Msgs) /\ <<f>> \o Tail(buffer) = buffer
    BY <1>2, FrontOfBuffer, FrontFirst
  <2> HIDE DEF f
  <2>3. \A m \in Msgs : writes[m] \notin {"io", "ok", "err"}
    BY <1>2, Zenon DEF OwnWrite
  <2>4. /\ writes'[f] = "io"
        /\ \A m \in Msgs : m # f => writes'[m] = writes[m]
    BY <1>0, <2>1, <2>2
  <2>5. OwnWrite'
    BY <2>1, <2>3, <2>4 DEF OwnWrite
  <2>6. UnderWay' = <<f>>
    BY <2>1, <2>2, <2>4, Zenon DEF UnderWay
  <2>7. UnderWay = <<>>
    BY <2>3, Zenon DEF UnderWay
  <2> DEFINE a == <<f>>
             b == Tail(buffer)
  <2>8. a \in Seq(S) /\ b \in Seq(S) /\ a \o b = buffer
    BY <2>2
  <2>9. UnderWay' = a /\ send_msg_buffer' = b
    BY <2>1, <2>6
  <2> HIDE DEF a, b, S
  <2>10. (sent \o a) \o b = sent \o (a \o b)
    <3>1. sent \in Seq(S) /\ a \in Seq(S) /\ b \in Seq(S)
      BY <1>0, <2>8, Zenon
    <3> QED
      BY <3>1, ConcatAssociative
  <2>11. sent \o <<>> = sent
    BY <1>0, ConcatEmptySeq
  <2> QED
    BY <2>5, <2>7, <2>8, <2>9, <2>10, <2>11, Zenon
<1> QED
  BY <1>0, <1>1, <1>2

\* Each step keeps the line.
LEMMA LineStep ==
    ASSUME ~MaySuspend, MaxLosses = 0
    PROVE  TypeOK /\ SendInv /\ LineInv /\ [Next]_vars => LineInv'
<1> SUFFICES ASSUME TypeOK, SendInv, LineInv, [Next]_vars PROVE LineInv'
  OBVIOUS
<1> DEFINE S == Msgs \cup {NoMsg}
<1>0. /\ sent \in Seq(S) /\ UnderWay \in Seq(S) /\ send_msg_buffer \in Seq(S)
      /\ taken \in Seq(S) /\ send_msg_buffer \in Seq(Msgs) /\ taken \in Seq(Msgs)
  BY LineTypes
<1>1. /\ OneLink /\ OwnWrite /\ SendLine
      /\ writes \in [Msgs -> Writes] /\ losses \in Nat
  BY DEF LineInv, TypeOK
<1>2. sending => is_send_allowed
  BY <1>1 DEF SendInv, FlagsFollowLink, OneLink, is_send_allowed
<1>3. ~(losses < MaxLosses)
  BY <1>1 DEF OneLink
<1>4. ASSUME UNCHANGED <<bufferVars, linkVars, suspend_send_msg_, taken, sent>> PROVE LineInv'
  <2>1. OneLink'
    BY <1>1, <1>4, Zenon DEF OneLink, linkVars
  <2>2. /\ send_msg_buffer' = send_msg_buffer /\ sending' = sending /\ writes' = writes
        /\ last_send_msg' = last_send_msg /\ taken' = taken /\ sent' = sent
    BY <1>4, Zenon DEF bufferVars
  <2>3. OwnWrite'
    BY <1>1, <2>2, Zenon DEF OwnWrite
  <2>4. UnderWay' = UnderWay
    BY <2>2, Zenon DEF UnderWay
  <2>5. SendLine'
    BY <1>1, <2>2, <2>4, Zenon DEF SendLine
  <2> QED
    BY <2>1, <2>3, <2>5 DEF LineInv
<1>5. ASSUME NEW more \in Seq(Msgs),
             do_send_msg(send_msg_buffer \o more, sending, is_send_allowed), taken' = taken \o more,
             UNCHANGED <<linkVars, suspend_send_msg_, sent>>
      PROVE  LineInv'
  <2>1. OneLink'
    BY <1>1, <1>5, Zenon DEF OneLink, linkVars
  <2> DEFINE buffer == send_msg_buffer \o more
             su == sent \o UnderWay
  <2>2. buffer \in Seq(Msgs) /\ more \in Seq(S) /\ su \in Seq(S)
    BY <1>0
  <2>3. do_send_msg(buffer, sending, is_send_allowed) /\ UNCHANGED sent
    BY <1>5, Zenon
  <2>4. (su \o send_msg_buffer) \o more = su \o (send_msg_buffer \o more)
    <3> HIDE DEF su
    <3> QED
      BY <1>0, <2>2, ConcatAssociative
  <2> HIDE DEF buffer
  <2>5. /\ OwnWrite'
        /\ sent' \o UnderWay' \o send_msg_buffer' = sent \o UnderWay \o buffer
    BY <1>1, <1>2, <2>2, <2>3, DoSendKeepsLine
  <2>6. SendLine'
    BY <1>1, <1>5, <2>4, <2>5, Zenon DEF SendLine, buffer
  <2> QED
    BY <2>1, <2>5, <2>6 DEF LineInv
<1>6. ASSUME NEW t \in Threads, NEW m \in Msgs, direct_send_msg(t, m) PROVE LineInv'
  <2> DEFINE more == <<m>>
  <2>1. /\ more \in Seq(Msgs) /\ Append(send_msg_buffer, m) = send_msg_buffer \o more
        /\ Append(taken, m) = taken \o more
    BY <1>0, AppendAsConcat
  <2>2. /\ do_send_msg(send_msg_buffer \o more, sending, is_send_allowed) /\ taken' = taken \o more
        /\ UNCHANGED <<linkVars, suspend_send_msg_, sent>>
    BY <1>6, <2>1, Zenon DEF direct_send_msg
  <2> HIDE DEF more
  <2> QED
    BY <1>5, <2>1, <2>2, Zenon
<1>7. ASSUME NEW t \in Threads, send_msg(t) PROVE LineInv'
  <2> DEFINE more == <<>>
  <2>1. more \in Seq(Msgs) /\ send_msg_buffer \o more = send_msg_buffer /\ taken \o more = taken
    BY <1>0, ConcatEmptySeq
  <2>2. /\ do_send_msg(send_msg_buffer \o more, sending, is_send_allowed) /\ taken' = taken \o more
        /\ UNCHANGED <<linkVars, suspend_send_msg_, sent>>
    BY <1>7, <2>1, Zenon DEF send_msg
  <2> HIDE DEF more
  <2> QED
    BY <1>5, <2>1, <2>2, Zenon
<1>8. CASE on_timer_2
  <2> DEFINE more == SubSeq(post_msg_buffer, 1, SpliceSize)
  <2>1. more \in Seq(Msgs)
    BY SpliceType
  <2>2. /\ taken' = taken \o more
        /\ UNCHANGED <<linkVars, suspend_send_msg_, sent>>
        /\ \/ do_send_msg(send_msg_buffer \o more, sending, is_send_allowed)
           \/ SpliceSize = 0 /\ UNCHANGED bufferVars
    BY <1>8, Zenon DEF on_timer_2
  <2>3. CASE do_send_msg(send_msg_buffer \o more, sending, is_send_allowed)
    <3> HIDE DEF more
    <3> QED
      BY <1>5, <2>1, <2>2, <2>3, Zenon
  <2>4. CASE SpliceSize = 0 /\ UNCHANGED bufferVars
    <3>1. more = <<>>
      <4>1. Len(more) = 0
        BY <2>4 DEF TypeOK
      <4> HIDE DEF more
      <4> QED
        BY <2>1, <4>1, EmptySeq
    <3> HIDE DEF more
    <3>2. taken \o more = taken
      BY <1>0, <3>1, ConcatEmptySeq
    <3> QED
      BY <1>4, <2>2, <2>4, <3>2, Zenon
  <2> QED
    BY <2>2, <2>3, <2>4
<1>9. ASSUME NEW m \in Msgs, send_handler_ok(m) PROVE LineInv'
  <2>1. /\ writes[m] = "ok" /\ sent' = sent /\ taken' = taken
        /\ UNCHANGED <<linkVars, suspend_send_msg_>>
    BY <1>9, Zenon DEF send_handler_ok
  <2>2. OneLink'
    BY <1>1, <2>1, Zenon DEF OneLink, linkVars
  <2>3. \A n \in Msgs : n # m => writes[n] \notin {"io", "ok", "err"}
    BY <1>1, <2>1, Zenon DEF OwnWrite
  <2>4. UnderWay = <<>>
    <3>1. "io" # "ok"
      OBVIOUS
    <3>2. \A n \in Msgs : writes[n] # "io"
      BY <2>1, <2>3, <3>1, Zenon
    <3> QED
      BY <3>2, Zenon DEF UnderWay
  <2>5. sent \o <<>> = sent
    BY <1>0, ConcatEmptySeq
  <2>6. CASE ~is_send_allowed \/ send_msg_buffer = <<>>
    <3>1. writes' = [writes EXCEPT ![m] = "done"] /\ send_msg_buffer' = send_msg_buffer
      BY <1>9, <2>6, Zenon DEF send_handler_ok
    <3>2. writes'[m] = "done" /\ \A n \in Msgs : n # m => writes'[n] = writes[n]
      BY <1>1, <3>1
    <3>3. \A n \in Msgs : writes'[n] \notin {"io", "ok", "err"}
      BY <2>3, <3>2
    <3>4. OwnWrite' /\ UnderWay' = <<>>
      BY <3>3, Zenon DEF OwnWrite, UnderWay
    <3>5. SendLine'
      BY <1>1, <2>1, <2>4, <3>1, <3>4, Zenon DEF SendLine
    <3> QED
      BY <2>2, <3>4, <3>5 DEF LineInv
  <2>7. CASE is_send_allowed /\ send_msg_buffer # <<>>
    <3> DEFINE f == Head(send_msg_buffer)
               a == <<f>>
               b == Tail(send_msg_buffer)
    <3>1. /\ sending' = TRUE /\ send_msg_buffer' = b /\ last_send_msg' = f
          /\ writes' = [writes EXCEPT ![m] = "done", ![f] = "io"]
      BY <1>9, <2>7, Zenon DEF send_handler_ok
    <3>2. f \in Msgs /\ a \o b = send_msg_buffer /\ a \in Seq(S) /\ b \in Seq(S)
      BY <1>0, <2>7, FrontOfBuffer, FrontFirst
    <3>3. writes'[f] = "io" /\ \A n \in Msgs : n # f => writes'[n] \notin {"io", "ok", "err"}
      <4> HIDE DEF f
      <4>1. writes' = [n \in Msgs |-> IF n = f THEN "io" ELSE IF n = m THEN "done" ELSE writes[n]]
        BY <1>1, <3>1
      <4>2. writes'[f] = "io" /\ \A n \in Msgs : n # f => writes'[n] = IF n = m THEN "done" ELSE writes[n]
        BY <3>2, <4>1
      <4> QED
        BY <2>3, <4>2
    <3>4. a = <<f>>
      OBVIOUS
    <3> HIDE DEF f, a, b, S
    <3>5. OwnWrite'
      <4>1. "io" \notin {"err"} /\ "io" # "err"
        OBVIOUS
      <4> QED
        BY <3>1, <3>3, <4>1 DEF OwnWrite
    <3>6. UnderWay' = a
      BY <3>1, <3>2, <3>3, <3>4, Zenon DEF UnderWay
    <3>7. (sent \o a) \o b = sent \o (a \o b)
      <4>1. sent \in Seq(S) /\ a \in Seq(S) /\ b \in Seq(S)
        BY <1>0, <3>2, Zenon
      <4> QED
        BY <4>1, ConcatAssociative
    <3>8. SendLine'
      BY <1>1, <2>1, <2>4, <2>5, <3>1, <3>2, <3>6, <3>7, Zenon DEF SendLine
    <3> QED
      BY <2>2, <3>5, <3>8 DEF LineInv
  <2> QED
    BY <2>6, <2>7
<1>10. ASSUME NEW m \in Msgs, write_completes(m) PROVE LineInv'
  <2>1. last_send_msg = m /\ sending /\ writes[m] = "io"
    BY <1>1, <1>10 DEF write_completes, OwnWrite
  <2>2. link = "up"
    BY <1>1, <2>1 DEF SendInv, FlagsFollowLink, OneLink
  <2>3. /\ writes' = [writes EXCEPT ![m] = "ok"] /\ sent' = Append(sent, m)
        /\ UNCHANGED <<send_msg_buffer, sending, last_send_msg, linkVars, suspend_send_msg_, taken>>
    BY <1>10, <2>1, <2>2 DEF write_completes
  <2>4. OneLink'
    BY <1>1, <2>3, Zenon DEF OneLink, linkVars
  <2>5. writes'[m] = "ok" /\ \A n \in Msgs : n # m => writes'[n] = writes[n]
    BY <1>1, <2>3
  <2>6. \A n \in Msgs : n # m => writes[n] \notin {"io", "ok", "err"}
    BY <1>1, <2>1, Zenon DEF OwnWrite
  <2>7. last_send_msg' = m /\ sending' = sending /\ send_msg_buffer' = send_msg_buffer /\ taken' = taken
    BY <2>1, <2>3, Zenon
  <2>8. OwnWrite'
    BY <2>1, <2>5, <2>6, <2>7 DEF OwnWrite
  <2>9. UnderWay = <<m>>
    BY <2>1, Zenon DEF UnderWay
  <2>10. UnderWay' = <<>>
    <3>1. "io" # "ok"
      OBVIOUS
    <3>2. \A n \in Msgs : writes'[n] # "io"
      BY <2>5, <2>6, <3>1, Zenon
    <3> QED
      BY <3>2, Zenon DEF UnderWay
  <2>11. sent' = sent \o UnderWay
    BY <1>0, <2>3, <2>9
  <2>12. sent' \in Seq(S)
    BY <1>0, <2>11
  <2>13. sent' \o <<>> = sent'
    BY <2>12, ConcatEmptySeq
  <2>14. SendLine'
    BY <1>1, <2>7, <2>10, <2>11, <2>13, Zenon DEF SendLine
  <2> QED
    BY <2>4, <2>8, <2>14 DEF LineInv
<1>11. ASSUME NEW t \in Threads, connect_handler(t) PROVE LineInv'
  <2>1. OneLink'
    BY <1>1, <1>11, Zenon DEF OneLink, connect_handler
  <2>2. /\ send_msg_buffer' = send_msg_buffer /\ sending' = sending /\ writes' = writes
        /\ last_send_msg' = last_send_msg /\ taken' = taken /\ sent' = sent
    BY <1>11, Zenon DEF connect_handler, bufferVars
  <2>3. OwnWrite'
    BY <1>1, <2>2, Zenon DEF OwnWrite
  <2>4. UnderWay' = UnderWay
    BY <2>2, Zenon DEF UnderWay
  <2>5. SendLine'
    BY <1>1, <2>2, <2>4, Zenon DEF SendLine
  <2> QED
    BY <2>1, <2>3, <2>5 DEF LineInv
<1>12. ASSUME NEW t \in Threads,
              \/ \E m \in Msgs : post_finds_full(t, m)
              \/ do_direct_post_msg(t)
       PROVE  LineInv'
  BY <1>4, <1>12, Zenon DEF post_finds_full, do_direct_post_msg
<1>13. CASE timer_expires
  BY <1>4, <1>13, Zenon DEF timer_expires
<1>14. ASSUME NEW t \in Threads PROVE ~suspend(t) /\ ~resume(t) /\ ~force_close(t)
  BY <1>3, Zenon DEF suspend, resume, force_close
<1>15. ~link_breaks /\ ~on_recv_error /\ \A m \in Msgs : ~send_handler_err(m)
  <2>1. ~link_breaks
    BY <1>3, Zenon DEF link_breaks
  <2>2. ~on_recv_error
    BY <1>1 DEF on_recv_error, OneLink
  <2>3. \A m \in Msgs : ~send_handler_err(m)
    BY <1>1, Zenon DEF send_handler_err, OwnWrite
  <2> QED
    BY <2>1, <2>2, <2>3
<1>16. CASE UNCHANGED vars
  BY <1>4, <1>16, Zenon DEF vars
<1>17. ASSUME NEW t \in Threads, Call(t) PROVE LineInv'
  BY <1>6, <1>7, <1>11, <1>12, <1>14, <1>17, Zenon DEF Call
<1>18. CASE Next
  BY <1>8, <1>9, <1>10, <1>13, <1>15, <1>17, <1>18, Zenon DEF Next, Handler, Runtime
<1> QED
  BY <1>16, <1>18

\* The invariant holds of a new socket.
LEMMA LineInit == Init => LineInv
<1> SUFFICES ASSUME Init PROVE LineInv
  OBVIOUS
<1>1. \A m \in Msgs : writes[m] = "none"
  BY DEF Init
<1>2. OneLink /\ OwnWrite
  BY <1>1 DEF Init, OneLink, OwnWrite
<1>3. UnderWay = <<>>
  BY <1>1 DEF UnderWay
<1>4. <<>> \o <<>> \o <<>> = <<>>
  OBVIOUS
<1>5. SendLine
  BY <1>3, <1>4, Zenon DEF Init, SendLine
<1> QED
  BY <1>2, <1>5 DEF LineInv

\* On one link, and when sending is never suspended, the invariant holds.
LEMMA LineHolds ==
    ASSUME ~MaySuspend, MaxLosses = 0
    PROVE  Spec => [](TypeOK /\ LineInv)
<1>1. Init => SendInv
  BY DEF Init, SendInv, SendNotStuck, SendingHasWrite, FlagsFollowLink
<1>2. TypeOK /\ SendInv /\ LineInv /\ [Next]_vars => SendInv' /\ LineInv'
  BY SendInvStep, LineStep
<1> QED
  BY <1>1, <1>2, LineInit, SendTypeCorrect, PTL DEF Spec

(***************************************************************************)
(* On one link, and when sending is never suspended, what the socket sends *)
(* is what entered send_msg_buffer, in that order, whichever threads send, *)
(* post and run the handlers: no message overtakes another through         *)
(* post_msg_buffer, none is sent twice, and none loses its memory          *)
(* (last_send_msg) while it is being sent.                                 *)
(***************************************************************************)
THEOREM SendsInOrder ==
    ASSUME ~MaySuspend, MaxLosses = 0
    PROVE  Spec => []SentInOrder
<1>1. TypeOK /\ LineInv => SentInOrder
  <2> SUFFICES ASSUME TypeOK, LineInv PROVE SentInOrder
    OBVIOUS
  <2> DEFINE S == Msgs \cup {NoMsg}
             su == sent \o UnderWay
  <2>1. sent \in Seq(S) /\ UnderWay \in Seq(S) /\ send_msg_buffer \in Seq(S)
    BY LineTypes
  <2>2. /\ su \in Seq(S) /\ Len(su) = Len(sent) + Len(UnderWay)
        /\ \A i \in 1..Len(sent) : su[i] = sent[i]
    BY <2>1
  <2>3. su \o send_msg_buffer = taken
    BY Zenon DEF LineInv, SendLine
  <2>4. Len(sent) \in Nat /\ Len(UnderWay) \in Nat /\ Len(send_msg_buffer) \in Nat /\ Len(su) \in Nat
    BY <2>1, <2>2
  <2> HIDE DEF su, S
  <2>5. Len(taken) = Len(su) + Len(send_msg_buffer) /\ \A i \in 1..Len(su) : taken[i] = su[i]
    BY <2>1, <2>2, <2>3, ConcatPrefix
  <2>6. Len(sent) <= Len(su) /\ Len(su) <= Len(taken) /\ Len(sent) <= Len(taken)
    BY <2>2, <2>4, <2>5
  <2>7. ASSUME NEW i \in 1..Len(sent) PROVE sent[i] = taken[i]
    <3>1. i \in 1..Len(su)
      BY <2>4, <2>6
    <3> QED
      BY <2>2, <2>5, <3>1
  <2> QED
    BY <2>6, <2>7 DEF SentInOrder
<1> QED
  BY <1>1, LineHolds, PTL

(***************************************************************************)
(* There, too, one async_write is under way at a time ("second send only   *)
(* after first send success").                                             *)
(***************************************************************************)
THEOREM SendsOneByOne ==
    ASSUME ~MaySuspend, MaxLosses = 0
    PROVE  Spec => []OneWriteAtATime
<1>1. TypeOK /\ LineInv => OneWriteAtATime
  BY DEF LineInv, OwnWrite, OneWriteAtATime
<1> QED
  BY <1>1, LineHolds, PTL
=============================================================================
