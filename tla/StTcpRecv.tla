------------------------------ MODULE StTcpRecv ------------------------------
(***************************************************************************)
(* The receiving half of an st_asio_wrapper socket: how received messages  *)
(* get from the unpacker through temp_msg_buffer and recv_msg_buffer to    *)
(* on_msg and on_msg_handle (st_socket and st_tcp_socket_base,             *)
(* asio_wrapper_test/include), over the life of one connection.            *)
(*                                                                         *)
(* One action is one critical section of recv_msg_buffer_mutex.  on_msg    *)
(* and on_msg_handle belong to the application and return what they like.  *)
(* dispatch_msg runs in the handler of the read or of timer 0, of which    *)
(* there is one at a time: "the receiver".                                 *)
(***************************************************************************)
EXTENDS Naturals, Sequences, FiniteSets

CONSTANTS
    Threads,      \* other threads that call the socket
    Msgs,         \* messages the peer sends; their number bounds a run
    NoMsg,        \* an empty OutMsgType
    MAX_MSG_NUM,  \* capacity of recv_msg_buffer
    MaxBatch,     \* bound: messages unpacked from one read
    FORCE,        \* FORCE_TO_USE_MSG_RECV_BUFFER is defined
    MaySuspend,   \* the application calls suspend_dispatch_msg
    MayPost,      \* the application calls post_msg
    MayClose      \* the connection ends

ASSUME RecvAssumption ==
    /\ NoMsg \notin Msgs
    /\ MAX_MSG_NUM \in Nat \ {0}
    /\ MaxBatch \in Nat
    /\ FORCE \in BOOLEAN /\ MaySuspend \in BOOLEAN
    /\ MayPost \in BOOLEAN /\ MayClose \in BOOLEAN

VARIABLES
    temp_msg_buffer,
    recv_msg_buffer,
    last_dispatch_msg,
    dispatching,
    suspend_dispatch_msg_,
    posting,      \* set and reset by the sending half (StTcpSend)
    handler,      \* the msg_handler that do_dispatch_msg posted
    read,         \* the async_read: outstanding, its handler queued, failed
    receiver,     \* where dispatch_msg is
    iter,         \* its iterator, a position in temp_msg_buffer
    dispatch,     \* its local flag
    armed,        \* timers waiting, of 0, 1 and 3
    expired,      \* timers whose handler is queued
    pc,           \* threads on their way to do_dispatch_msg(true)
    open,         \* lowest_layer().is_open()
    close_state,  \* 0 normal, 1 force close
    arrived,      \* history: messages unpacked, in order
    handled,      \* history: messages given to the application, in order
    discarded     \* history: messages thrown away with a closed socket

bufferVars  == <<temp_msg_buffer, recv_msg_buffer, last_dispatch_msg, dispatching, handler>>
receiveVars == <<read, receiver, iter, dispatch>>
timerVars   == <<armed, expired>>
linkVars    == <<suspend_dispatch_msg_, posting, open, close_state, discarded>>
vars == <<bufferVars, receiveVars, timerVars, linkVars, pc, arrived, handled>>

TimerIds == {0, 1, 3}
Elements(s) == {s[i] : i \in 1..Len(s)}

TypeOK ==
    /\ temp_msg_buffer \in Seq(Msgs)
    /\ recv_msg_buffer \in Seq(Msgs)
    /\ last_dispatch_msg \in Msgs \cup {NoMsg}
    /\ dispatching \in BOOLEAN
    /\ suspend_dispatch_msg_ \in BOOLEAN
    /\ posting \in BOOLEAN
    /\ handler \in {"none", "posted", "accepted", "refused"}
    /\ handler \in {"posted", "refused"} => last_dispatch_msg \in Msgs
    /\ read \in {"none", "io", "data", "err"}
    /\ receiver \in {"none", "loop", "dispatch", "end"}
    /\ iter \in Nat /\ iter > 0
    /\ dispatch \in BOOLEAN
    /\ armed \subseteq TimerIds
    /\ expired \subseteq TimerIds
    /\ pc \in [Threads -> {"idle", "do_dispatch_msg"}]
    /\ open \in BOOLEAN
    /\ close_state \in {0, 1}
    /\ arrived \in Seq(Msgs)
    /\ handled \in Seq(Msgs)
    /\ discarded \in Seq(Msgs)

\* A connected socket whose start() has issued the first read.
Init ==
    /\ temp_msg_buffer = <<>>
    /\ recv_msg_buffer = <<>>
    /\ last_dispatch_msg = NoMsg
    /\ dispatching = FALSE
    /\ suspend_dispatch_msg_ = FALSE
    /\ posting = FALSE
    /\ handler = "none"
    /\ read = "io"
    /\ receiver = "none"
    /\ iter = 1
    /\ dispatch = FALSE
    /\ armed = {}
    /\ expired = {}
    /\ pc = [t \in Threads |-> "idle"]
    /\ open = TRUE
    /\ close_state = 0
    /\ arrived = <<>>
    /\ handled = <<>>
    /\ discarded = <<>>

-----------------------------------------------------------------------------
\* Mutant of do_dispatch_msg: dispatching is not looked at.
do_dispatch_msg_unchecked(recv, temp, busy, last, state) ==
    /\ ~suspend_dispatch_msg_ /\ ~posting /\ open /\ recv # <<>>
    /\ dispatching' = TRUE
    /\ last_dispatch_msg' = Head(recv)
    /\ handler' = "posted"
    /\ recv_msg_buffer' = Tail(recv)
    /\ temp_msg_buffer' = temp
    /\ UNCHANGED <<armed, handled>>

\* do_dispatch_msg with the lock held and these values of recv_msg_buffer,
\* temp_msg_buffer and dispatching.  Unless it posts a msg_handler it leaves
\* last and state as the last_dispatch_msg and the handler there is.
do_dispatch_msg(recv, temp, busy, last, state) ==
    \/ /\ suspend_dispatch_msg_ \/ posting \/ busy \/ (open /\ recv = <<>>)
       /\ armed' = IF suspend_dispatch_msg_ /\ ~busy /\ recv # <<>> THEN armed \cup {1} ELSE armed
       /\ recv_msg_buffer' = recv /\ temp_msg_buffer' = temp
       /\ dispatching' = busy
       /\ last_dispatch_msg' = last /\ handler' = state
       /\ UNCHANGED handled
    \/ /\ ~suspend_dispatch_msg_ /\ ~posting /\ ~busy /\ open /\ recv # <<>>
       /\ dispatching' = TRUE
       /\ last_dispatch_msg' = Head(recv)
       /\ handler' = "posted"
       /\ recv_msg_buffer' = Tail(recv) /\ temp_msg_buffer' = temp
       /\ UNCHANGED <<armed, handled>>
    \/ /\ ~suspend_dispatch_msg_ /\ ~posting /\ ~busy /\ ~open
       /\ handled' = handled \o recv \o (IF FORCE THEN temp ELSE <<>>)
       /\ recv_msg_buffer' = <<>>
       /\ temp_msg_buffer' = IF FORCE THEN <<>> ELSE temp
       /\ dispatching' = FALSE
       /\ last_dispatch_msg' = last /\ handler' = state
       /\ UNCHANGED armed

\* do_dispatch_msg(true) on the buffers as they are.
dispatch_now ==
    do_dispatch_msg(recv_msg_buffer, temp_msg_buffer, dispatching, last_dispatch_msg, handler)

-----------------------------------------------------------------------------
(* dispatch_msg *)

begin_dispatch_msg ==
    /\ receiver' = "loop"
    /\ iter' = 1
    /\ dispatch' = FALSE

\* recv_handler: parse_msg appends what it unpacked, then dispatch_msg.
recv_handler(batch) ==
    /\ read = "data" /\ read' = "none"
    /\ temp_msg_buffer' = temp_msg_buffer \o batch
    /\ arrived' = arrived \o batch
    /\ begin_dispatch_msg
    /\ UNCHANGED <<recv_msg_buffer, last_dispatch_msg, dispatching, handler,
                   timerVars, linkVars, pc, handled>>

on_timer_0 ==
    /\ 0 \in expired /\ expired' = expired \ {0}
    /\ begin_dispatch_msg
    /\ UNCHANGED <<bufferVars, read, armed, linkVars, pc, arrived, handled>>

Looping == ~suspend_dispatch_msg_ /\ ~posting /\ iter <= Len(temp_msg_buffer)

WithoutIter == SubSeq(temp_msg_buffer, 1, iter - 1)
               \o SubSeq(temp_msg_buffer, iter + 1, Len(temp_msg_buffer))

\* on_msg returns true: the message is handled and erased.
on_msg_true ==
    /\ receiver = "loop" /\ ~FORCE /\ Looping
    /\ handled' = Append(handled, temp_msg_buffer[iter])
    /\ temp_msg_buffer' = WithoutIter
    /\ UNCHANGED <<recv_msg_buffer, last_dispatch_msg, dispatching, handler, receiveVars,
                   timerVars, linkVars, pc, arrived>>

\* on_msg returns false: splice the message to recv_msg_buffer if that has
\* room, else leave it where it is and look at the next one.
on_msg_false ==
    /\ receiver = "loop" /\ ~FORCE /\ Looping
    /\ \/ /\ Len(recv_msg_buffer) < MAX_MSG_NUM
          /\ dispatch' = TRUE
          /\ recv_msg_buffer' = Append(recv_msg_buffer, temp_msg_buffer[iter])
          /\ temp_msg_buffer' = WithoutIter
          /\ UNCHANGED iter
       \/ /\ Len(recv_msg_buffer) >= MAX_MSG_NUM
          /\ iter' = iter + 1
          /\ UNCHANGED <<dispatch, recv_msg_buffer, temp_msg_buffer>>
    /\ UNCHANGED <<last_dispatch_msg, dispatching, handler, read, receiver,
                   timerVars, linkVars, pc, arrived, handled>>

loop_ends ==
    /\ receiver = "loop" /\ ~FORCE /\ ~Looping
    /\ receiver' = IF dispatch THEN "dispatch" ELSE "end"
    /\ UNCHANGED <<bufferVars, read, iter, dispatch, timerVars, linkVars, pc, arrived, handled>>

receiver_dispatches ==
    /\ receiver = "dispatch" /\ receiver' = "end"
    /\ dispatch_now
    /\ UNCHANGED <<read, iter, dispatch, expired, linkVars, pc, arrived>>

\* splice_helper(recv_msg_buffer, temp_msg_buffer) moves this many messages.
SpliceSize ==
    LET room == IF Len(recv_msg_buffer) < MAX_MSG_NUM
                THEN MAX_MSG_NUM - Len(recv_msg_buffer) ELSE 0
    IN  IF Len(temp_msg_buffer) < room THEN Len(temp_msg_buffer) ELSE room

\* With FORCE_TO_USE_MSG_RECV_BUFFER: splice, and do_dispatch_msg(false).
splice_and_dispatch ==
    /\ receiver = "loop" /\ FORCE
    /\ receiver' = "end"
    /\ \/ /\ SpliceSize > 0
          /\ do_dispatch_msg(recv_msg_buffer \o SubSeq(temp_msg_buffer, 1, SpliceSize),
                             SubSeq(temp_msg_buffer, SpliceSize + 1, Len(temp_msg_buffer)),
                             dispatching, last_dispatch_msg, handler)
       \/ SpliceSize = 0 /\ UNCHANGED <<bufferVars, armed, handled>>
    /\ UNCHANGED <<read, iter, dispatch, expired, linkVars, pc, arrived>>

\* Mutant of dispatch_msg_ends: timer 0 is not set.
dispatch_msg_ends_no_timer ==
    /\ receiver = "end" /\ receiver' = "none"
    /\ read' = IF temp_msg_buffer = <<>> THEN (IF open THEN "io" ELSE "err") ELSE "none"
    /\ UNCHANGED <<bufferVars, iter, dispatch, timerVars, linkVars, pc, arrived, handled>>

\* All messages gone: do_start reads again (on a closed socket that fails at
\* once); otherwise try again with timer 0.
dispatch_msg_ends ==
    /\ receiver = "end" /\ receiver' = "none"
    /\ \/ /\ temp_msg_buffer = <<>>
          /\ read' = IF open THEN "io" ELSE "err"
          /\ UNCHANGED armed
       \/ /\ temp_msg_buffer # <<>>
          /\ armed' = armed \cup {0}
          /\ UNCHANGED read
    /\ UNCHANGED <<bufferVars, iter, dispatch, expired, linkVars, pc, arrived, handled>>

-----------------------------------------------------------------------------
(* msg_handler *)

on_msg_handle_true ==
    /\ handler = "posted" /\ handler' = "accepted"
    /\ handled' = Append(handled, last_dispatch_msg)
    /\ UNCHANGED <<temp_msg_buffer, recv_msg_buffer, last_dispatch_msg, dispatching,
                   receiveVars, timerVars, linkVars, pc, arrived>>

on_msg_handle_false ==
    /\ handler = "posted" /\ handler' = "refused"
    /\ UNCHANGED <<temp_msg_buffer, recv_msg_buffer, last_dispatch_msg, dispatching,
                   receiveVars, timerVars, linkVars, pc, arrived, handled>>

\* The rest of msg_handler when on_msg_handle returned true: dispatching is
\* reset and the next message dispatched, or last_dispatch_msg cleared.
msg_handler_accepted ==
    /\ handler = "accepted"
    /\ do_dispatch_msg(recv_msg_buffer, temp_msg_buffer, FALSE, NoMsg, "none")
    /\ UNCHANGED <<receiveVars, expired, linkVars, pc, arrived>>

\* Mutant of msg_handler_refused: the message goes to the back.
msg_handler_refused_push_back ==
    /\ handler = "refused" /\ handler' = "none"
    /\ dispatching' = FALSE
    /\ recv_msg_buffer' = Append(recv_msg_buffer, last_dispatch_msg)
    /\ last_dispatch_msg' = NoMsg
    /\ armed' = armed \cup {3}
    /\ UNCHANGED <<temp_msg_buffer, receiveVars, expired, linkVars, pc, arrived, handled>>

\* ... or false: back to the front, to be dispatched again by timer 3.
msg_handler_refused ==
    /\ handler = "refused" /\ handler' = "none"
    /\ dispatching' = FALSE
    /\ recv_msg_buffer' = <<last_dispatch_msg>> \o recv_msg_buffer
    /\ last_dispatch_msg' = NoMsg
    /\ armed' = armed \cup {3}
    /\ UNCHANGED <<temp_msg_buffer, receiveVars, expired, linkVars, pc, arrived, handled>>

\* Timers 1 and 3: do_dispatch_msg(true).
on_timer_dispatch(id) ==
    /\ id \in expired \ {0} /\ expired' = expired \ {id}
    /\ dispatch_now
    /\ UNCHANGED <<receiveVars, linkVars, pc, arrived>>

-----------------------------------------------------------------------------
(* Other threads *)

\* suspend_dispatch_msg(suspend): the flag, stop_timer(1), then do_dispatch_msg.
suspend_dispatch_msg(t, suspend) ==
    /\ MaySuspend /\ pc[t] = "idle"
    /\ suspend_dispatch_msg_' = suspend
    /\ armed' = armed \ {1}
    /\ pc' = [pc EXCEPT ![t] = "do_dispatch_msg"]
    /\ UNCHANGED <<bufferVars, receiveVars, expired, posting, open, close_state, arrived, handled,
                   discarded>>

thread_dispatches(t) ==
    /\ pc[t] = "do_dispatch_msg"
    /\ dispatch_now
    /\ pc' = [pc EXCEPT ![t] = "idle"]
    /\ UNCHANGED <<receiveVars, expired, linkVars, arrived>>

\* do_direct_post_msg sets posting.
post_begins ==
    /\ MayPost /\ ~posting
    /\ posting' = TRUE
    /\ UNCHANGED <<bufferVars, receiveVars, timerVars, suspend_dispatch_msg_, open, close_state, pc,
                   arrived, handled, discarded>>

\* Mutant of post_ends: do_dispatch_msg is not called when posting ends.
post_ends_only(t) ==
    /\ MayPost /\ pc[t] = "idle"
    /\ posting' = FALSE
    /\ UNCHANGED <<bufferVars, receiveVars, timerVars, suspend_dispatch_msg_, open, close_state, pc,
                   arrived, handled, discarded>>

\* on_timer(2) finds post_msg_buffer empty: reset posting, unlock, then
\* do_dispatch_msg(true).  It may be a late handler, after clean_up; timer 2
\* itself belongs to the sending half.
post_ends(t) ==
    /\ MayPost /\ pc[t] = "idle"
    /\ posting' = FALSE
    /\ pc' = [pc EXCEPT ![t] = "do_dispatch_msg"]
    /\ UNCHANGED <<bufferVars, receiveVars, timerVars, suspend_dispatch_msg_, open, close_state,
                   arrived, handled, discarded>>

\* clean_up: cancel the timers, reset_state, close the socket.
clean_up ==
    /\ armed' = {}
    /\ posting' = FALSE
    /\ dispatching' = FALSE
    /\ suspend_dispatch_msg_' = FALSE
    /\ open' = FALSE

\* force_close by the application, which fails an outstanding read.
force_close ==
    /\ MayClose /\ close_state # 1 /\ close_state' = 1
    /\ clean_up
    /\ read' = IF read = "io" THEN "err" ELSE read
    /\ UNCHANGED <<temp_msg_buffer, recv_msg_buffer, last_dispatch_msg, handler,
                   receiver, iter, dispatch, expired, pc, arrived, handled, discarded>>

\* on_recv_error: force_close unless that was done; close_state is 0 again.
on_recv_error ==
    /\ read = "err" /\ read' = "none"
    /\ \/ close_state # 1 /\ clean_up
       \/ close_state = 1 /\ UNCHANGED <<armed, posting, dispatching, suspend_dispatch_msg_, open>>
    /\ close_state' = 0
    /\ UNCHANGED <<temp_msg_buffer, recv_msg_buffer, last_dispatch_msg, handler,
                   receiver, iter, dispatch, expired, pc, arrived, handled, discarded>>

\* reset, when a closed socket is used again: by the object pool, once
\* obsoleted() finds it not closing and recv_msg_buffer empty, or by a client
\* that is started again, when nothing is queued.  What is left in the buffers was "discarded" with the link.
reset ==
    /\ MayClose /\ ~open /\ read = "none" /\ receiver = "none"
    /\ \/ close_state = 0 /\ recv_msg_buffer = <<>>
       \/ handler = "none" /\ armed = {} /\ expired = {} /\ \A t \in Threads : pc[t] = "idle"
    /\ discarded' = discarded \o recv_msg_buffer \o temp_msg_buffer
    /\ recv_msg_buffer' = <<>>
    /\ temp_msg_buffer' = <<>>
    /\ posting' = FALSE
    /\ dispatching' = FALSE
    /\ suspend_dispatch_msg_' = FALSE
    /\ UNCHANGED <<last_dispatch_msg, handler, receiveVars, timerVars, open, close_state, pc,
                   arrived, handled>>

-----------------------------------------------------------------------------
(* The network and the asio runtime *)

data_arrives ==
    /\ read = "io" /\ read' = "data"
    /\ UNCHANGED <<bufferVars, receiver, iter, dispatch, timerVars, linkVars, pc, arrived, handled>>

peer_closes ==
    /\ MayClose /\ read = "io" /\ read' = "err"
    /\ UNCHANGED <<bufferVars, receiver, iter, dispatch, timerVars, linkVars, pc, arrived, handled>>

\* A second expiry is delayed until the handler of the first has run.
timer_expires(id) ==
    /\ id \in armed \ expired
    /\ armed' = armed \ {id}
    /\ expired' = expired \cup {id}
    /\ UNCHANGED <<bufferVars, receiveVars, linkVars, pc, arrived, handled>>

\* What one read may bring: up to MaxBatch messages not seen before.
Batches ==
    {b \in UNION {[1..n -> Msgs \ Elements(arrived)] : n \in 0..MaxBatch} :
        \A i, j \in DOMAIN b : b[i] = b[j] => i = j}

-----------------------------------------------------------------------------
Receive ==
    \/ \E b \in Batches : recv_handler(b)
    \/ on_timer_0
    \/ on_msg_true
    \/ on_msg_false
    \/ loop_ends
    \/ receiver_dispatches
    \/ splice_and_dispatch
    \/ dispatch_msg_ends

Dispatch ==
    \/ on_msg_handle_true
    \/ on_msg_handle_false
    \/ msg_handler_accepted
    \/ msg_handler_refused
    \/ \E id \in TimerIds : on_timer_dispatch(id)

Call(t) ==
    \/ \E suspend \in BOOLEAN : suspend_dispatch_msg(t, suspend)
    \/ thread_dispatches(t)
    \/ post_ends(t)

Others ==
    \/ post_begins
    \/ force_close
    \/ on_recv_error
    \/ reset
    \/ data_arrives
    \/ peer_closes
    \/ \E id \in TimerIds : timer_expires(id)

Next == Receive \/ Dispatch \/ (\E t \in Threads : Call(t)) \/ Others

Spec == Init /\ [][Next]_vars

(***************************************************************************)
(* The io threads run every queued handler to its end, timers expire, and  *)
(* an application that may refuse a message accepts it when it is offered  *)
(* again and again.                                                        *)
(***************************************************************************)
Fairness ==
    /\ WF_vars(on_timer_0)
    /\ WF_vars(on_msg_true \/ on_msg_false)
    /\ WF_vars(loop_ends \/ splice_and_dispatch)
    /\ WF_vars(receiver_dispatches)
    /\ WF_vars(dispatch_msg_ends)
    /\ WF_vars(on_msg_handle_true \/ on_msg_handle_false)
    /\ SF_vars(on_msg_handle_true)
    /\ WF_vars(msg_handler_accepted) /\ WF_vars(msg_handler_refused)
    /\ \A t \in Threads : WF_vars(thread_dispatches(t))
    /\ \A id \in TimerIds : WF_vars(timer_expires(id)) /\ WF_vars(on_timer_dispatch(id))

FairSpec == Spec /\ Fairness

-----------------------------------------------------------------------------
Offered == IF handler \in {"posted", "refused"} THEN <<last_dispatch_msg>> ELSE <<>>

(***************************************************************************)
(* Every message is in one place and handled at most once, on its way      *)
(* through the two buffers, last_dispatch_msg and the hand-overs between   *)
(* them, whatever on_msg and on_msg_handle return and whenever the link    *)
(* closes.  Nothing is lost while the link is open; what a closed socket   *)
(* still holds when it is reset is lost, as do_dispatch_msg says of        *)
(* temp_msg_buffer.                                                        *)
(***************************************************************************)
EachOnce ==
    LET all == handled \o Offered \o recv_msg_buffer \o temp_msg_buffer
    IN  /\ Len(all) + Len(discarded) = Len(arrived)
        /\ Elements(all) \cup Elements(discarded) = Elements(arrived)
        /\ open => discarded = <<>>

(***************************************************************************)
(* With FORCE_TO_USE_MSG_RECV_BUFFER the messages are handled in the order *)
(* in which they arrived: msg_handler handles a message "before next msg   *)
(* dispatching to keep sequence".                                          *)
(***************************************************************************)
HandledInOrder ==
    FORCE => handled \o Offered \o recv_msg_buffer \o temp_msg_buffer = arrived

(***************************************************************************)
(* Messages that wait for on_msg_handle wait in the order of arrival, a    *)
(* full receive buffer included.                                           *)
(***************************************************************************)
WaitInOrder ==
    LET waiting == Offered \o recv_msg_buffer \o temp_msg_buffer
        place(m) == CHOOSE i \in 1..Len(arrived) : arrived[i] = m
    IN  \A i, j \in 1..Len(waiting) : i < j => place(waiting[i]) < place(waiting[j])

\* Someone is about to call do_dispatch_msg, or a timer will.
DispatchComes ==
    \/ handler # "none"
    \/ 3 \in armed \cup expired
    \/ receiver = "dispatch" \/ (receiver = "loop" /\ dispatch)
    \/ \E t \in Threads : pc[t] = "do_dispatch_msg"

(***************************************************************************)
(* A message in recv_msg_buffer of an open socket that is neither          *)
(* suspended nor posting is never forgotten: a msg_handler is under way or *)
(* do_dispatch_msg will be called.                                         *)
(***************************************************************************)
DispatchNotStuck ==
    open /\ ~suspend_dispatch_msg_ /\ ~posting /\ recv_msg_buffer # <<>> => DispatchComes

\* Whatever could still lead to a dispatch_msg.
Receiving == read # "none" \/ receiver # "none" \/ 0 \in armed \cup expired

(***************************************************************************)
(* "return false means msg cannot be handled right now, and st_socket will *)
(* re-dispatch it asynchronously" (on_msg_handle): so also when the link   *)
(* goes down meanwhile.  While messages wait, some call of do_dispatch_msg *)
(* is still to come.                                                       *)
(***************************************************************************)
RedispatchComes ==
    recv_msg_buffer # <<>> /\ ~suspend_dispatch_msg_ /\ ~posting
        => DispatchComes \/ 1 \in expired \/ Receiving

(***************************************************************************)
(* "receive msg sequentially, which means second receiving only after      *)
(* first receiving success" (dispatch_msg): there is one receiver, a read, *)
(* a dispatch_msg or timer 0, never two, and never none while the socket   *)
(* is open.  (A second one would work on temp_msg_buffer at the same time.)*)
(***************************************************************************)
OneReceiver ==
    /\ read # "none" => receiver = "none" /\ 0 \notin armed \cup expired
    /\ receiver # "none" => 0 \notin armed \cup expired
    /\ 0 \in armed => 0 \notin expired
    /\ open => Receiving

\* dispatching is never a leftover, as there is a msg_handler to reset it.
DispatchingHasHandler == dispatching => handler # "none"

(***************************************************************************)
(* The inductive invariant behind DispatchNotStuck: do_dispatch_msg may    *)
(* leave a message to the msg_handler that dispatching stands for, and no  *)
(* second dispatch_msg resets the flag of the first.                       *)
(***************************************************************************)
RecvInv ==
    /\ DispatchNotStuck
    /\ OneReceiver
    /\ DispatchingHasHandler
    /\ FORCE => ~dispatch
    /\ close_state = 1 => ~open

(***************************************************************************)
(* Every message that arrives is handled in the end, overflow, refusals    *)
(* and the end of a suspension or of posting notwithstanding, unless the   *)
(* application suspends or posts again.                                    *)
(***************************************************************************)
ArrivedIsHandled ==
    \A m \in Msgs : m \in Elements(arrived) ~>
                      m \in Elements(handled) \/ suspend_dispatch_msg_ \/ posting
=============================================================================
