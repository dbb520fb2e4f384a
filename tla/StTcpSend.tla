------------------------------ MODULE StTcpSend ------------------------------
(***************************************************************************)
(* The sending half of an st_asio_wrapper client socket: st_socket and     *)
(* st_tcp_socket_base, with the parts of st_connector_base that open and   *)
(* close its link (asio_wrapper_test/include).                             *)
(*                                                                         *)
(* Any thread sends, posts, suspends or closes; any io thread runs the     *)
(* handlers.  One action is one critical section of send_msg_buffer_mutex  *)
(* or post_msg_buffer_mutex, so a call that locks twice is two actions of  *)
(* its thread.  reset_state and the flags suspend_send_msg_, connected and *)
(* close_state are written without a lock.                                 *)
(***************************************************************************)
EXTENDS Naturals, Sequences, FiniteSets

CONSTANTS
    Threads,       \* threads that call the socket or run its handlers
    Msgs,          \* packed messages; their number bounds a run
    NoMsg,         \* an empty InMsgType
    OverflowMsgs,  \* messages sent with can_overflow = true
    MAX_MSG_NUM,   \* capacity of send_msg_buffer
    MaySuspend,    \* the application calls suspend_send_msg
    MaxLosses      \* bound: how often the link is lost or closed

ASSUME SendAssumption ==
    /\ NoMsg \notin Msgs
    /\ OverflowMsgs \subseteq Msgs
    /\ MAX_MSG_NUM \in Nat \ {0}
    /\ MaySuspend \in BOOLEAN
    /\ MaxLosses \in Nat

VARIABLES
    send_msg_buffer,
    post_msg_buffer,
    sending,
    posting,
    suspend_send_msg_,
    last_send_msg,    \* the message whose memory the last async_write uses
    writes,           \* writes[m]: the async_write of m
    timer,            \* timer 2, which empties post_msg_buffer
    pc,               \* where a thread is in a call that locks twice
    arg,              \* arg[t]: the message thread t is posting
    close_state,      \* 0 normal, 1 force close
    connected,
    link,             \* the TCP connection
    losses,           \* how often the link was lost or closed
    taken,            \* history: messages put into send_msg_buffer, in order
    sent              \* history: what the socket sent, in order

bufferVars == <<send_msg_buffer, sending, last_send_msg, writes>>
postVars   == <<post_msg_buffer, posting, timer>>
linkVars   == <<close_state, connected, link, losses>>
callVars   == <<pc, arg>>
vars == <<bufferVars, postVars, suspend_send_msg_, linkVars, callVars, taken, sent>>

Writes == {"none", "io", "ok", "err", "done"}
Timers == [armed : BOOLEAN,   \* async_wait outstanding
           queued : Nat,      \* handlers that expired and were not yet run
           ok : BOOLEAN]      \* TIMER_OK, or TIMER_CANCELED

TypeOK ==
    /\ send_msg_buffer \in Seq(Msgs)
    /\ post_msg_buffer \in Seq(Msgs)
    /\ sending \in BOOLEAN
    /\ posting \in BOOLEAN
    /\ suspend_send_msg_ \in BOOLEAN
    /\ last_send_msg \in Msgs \cup {NoMsg}
    /\ writes \in [Msgs -> Writes]
    /\ timer \in Timers
    /\ pc \in [Threads -> {"idle", "post", "send_msg"}]
    /\ arg \in [Threads -> Msgs \cup {NoMsg}]
    /\ \A t \in Threads : pc[t] = "post" => arg[t] \in Msgs
    /\ close_state \in {0, 1}
    /\ connected \in BOOLEAN
    /\ link \in {"connecting", "up", "broken", "closed"}
    /\ losses \in Nat
    /\ taken \in Seq(Msgs)
    /\ sent \in Seq(Msgs \cup {NoMsg})

\* A socket that start() has just told to connect.
Init ==
    /\ send_msg_buffer = <<>>
    /\ post_msg_buffer = <<>>
    /\ sending = FALSE
    /\ posting = FALSE
    /\ suspend_send_msg_ = FALSE
    /\ last_send_msg = NoMsg
    /\ writes = [m \in Msgs |-> "none"]
    /\ timer = [armed |-> FALSE, queued |-> 0, ok |-> TRUE]
    /\ pc = [t \in Threads |-> "idle"]
    /\ arg = [t \in Threads |-> NoMsg]
    /\ close_state = 0
    /\ connected = FALSE
    /\ link = "connecting"
    /\ losses = 0
    /\ taken = <<>>
    /\ sent = <<>>

-----------------------------------------------------------------------------
Elements(s) == {s[i] : i \in 1..Len(s)}
Fresh(m) == /\ m \notin Elements(taken) \cup Elements(post_msg_buffer)
            /\ \A t \in Threads : arg[t] # m

is_send_allowed == connected /\ close_state = 0 /\ ~suspend_send_msg_

\* do_send_msg, called with the lock held and these values of send_msg_buffer
\* and sending: when sending is not allowed, it is no longer "sending";
\* otherwise start the front message unless a write is under way.
do_send_msg(buffer, busy, allowed) ==
    \/ /\ ~allowed
       /\ sending' = FALSE
       /\ send_msg_buffer' = buffer
       /\ UNCHANGED <<last_send_msg, writes>>
    \/ /\ allowed /\ (busy \/ buffer = <<>>)
       /\ sending' = busy
       /\ send_msg_buffer' = buffer
       /\ UNCHANGED <<last_send_msg, writes>>
    \/ /\ allowed /\ ~busy /\ buffer # <<>>
       /\ sending' = TRUE
       /\ send_msg_buffer' = Tail(buffer)
       /\ last_send_msg' = Head(buffer)
       /\ writes' = [writes EXCEPT ![Head(buffer)] = "io"]

is_send_buffer_available == Len(send_msg_buffer) < MAX_MSG_NUM

-----------------------------------------------------------------------------
(* Calls of the application *)

\* direct_send_msg, send_msg, safe_send_msg when there is room; the first half
\* of direct_post_msg is the same call.
direct_send_msg(t, m) ==
    /\ pc[t] = "idle" /\ Fresh(m)
    /\ m \in OverflowMsgs \/ is_send_buffer_available
    /\ do_send_msg(Append(send_msg_buffer, m), sending, is_send_allowed)
    /\ taken' = Append(taken, m)
    /\ UNCHANGED <<postVars, suspend_send_msg_, linkVars, callVars, sent>>

\* direct_post_msg finds the send buffer full, and releases its lock ...
post_finds_full(t, m) ==
    /\ pc[t] = "idle" /\ Fresh(m)
    /\ m \notin OverflowMsgs /\ ~is_send_buffer_available
    /\ pc' = [pc EXCEPT ![t] = "post"]
    /\ arg' = [arg EXCEPT ![t] = m]
    /\ UNCHANGED <<bufferVars, postVars, suspend_send_msg_, linkVars, taken, sent>>

\* ... then do_direct_post_msg: the first post sets timer 2, which cancels a
\* wait that is outstanding but not a handler that is queued.
do_direct_post_msg(t) ==
    /\ pc[t] = "post"
    /\ post_msg_buffer' = Append(post_msg_buffer, arg[t])
    /\ \/ posting /\ UNCHANGED <<posting, timer>>
       \/ ~posting /\ posting' = TRUE /\ timer' = [timer EXCEPT !.armed = TRUE, !.ok = TRUE]
    /\ pc' = [pc EXCEPT ![t] = "idle"]
    /\ arg' = [arg EXCEPT ![t] = NoMsg]
    /\ UNCHANGED <<bufferVars, suspend_send_msg_, linkVars, taken, sent>>

suspend(t) ==
    /\ MaySuspend /\ pc[t] = "idle" /\ ~suspend_send_msg_
    /\ suspend_send_msg_' = TRUE
    /\ UNCHANGED <<bufferVars, postVars, linkVars, callVars, taken, sent>>

\* suspend_send_msg(false): the flag, and then send_msg().
resume(t) ==
    /\ MaySuspend /\ pc[t] = "idle" /\ suspend_send_msg_
    /\ suspend_send_msg_' = FALSE
    /\ pc' = [pc EXCEPT ![t] = "send_msg"]
    /\ UNCHANGED <<bufferVars, postVars, linkVars, arg, taken, sent>>

send_msg(t) ==
    /\ pc[t] = "send_msg"
    /\ do_send_msg(send_msg_buffer, sending, is_send_allowed)
    /\ pc' = [pc EXCEPT ![t] = "idle"]
    /\ UNCHANGED <<postVars, suspend_send_msg_, linkVars, arg, taken, sent>>

-----------------------------------------------------------------------------
(* Handlers *)

\* splice_helper(send_msg_buffer, post_msg_buffer) moves this many messages.
SpliceSize ==
    LET room == IF is_send_buffer_available THEN MAX_MSG_NUM - Len(send_msg_buffer) ELSE 0
    IN  IF Len(post_msg_buffer) < room THEN Len(post_msg_buffer) ELSE room

\* on_timer(2) and timer_handler: move what fits, send it, go on with the timer
\* while messages are left and the timer was not cancelled.  (The call of
\* do_dispatch_msg that follows belongs to the receiving half.)
on_timer_2 ==
    LET moved == SubSeq(post_msg_buffer, 1, SpliceSize)
        left  == SubSeq(post_msg_buffer, SpliceSize + 1, Len(post_msg_buffer))
    IN  /\ timer.queued > 0
        /\ post_msg_buffer' = left
        /\ taken' = taken \o moved
        /\ \/ /\ SpliceSize > 0
              /\ do_send_msg(send_msg_buffer \o moved, sending, is_send_allowed)
           \/ SpliceSize = 0 /\ UNCHANGED bufferVars
        /\ posting' = (left # <<>>)
        /\ timer' = [timer EXCEPT !.queued = @ - 1,
                                  !.armed = @ \/ (left # <<>> /\ timer.ok)]
        /\ UNCHANGED <<suspend_send_msg_, linkVars, callVars, sent>>

\* Mutants of send_handler: the next message is not started; the memory of the
\* last message is cleared although the next one was started.
send_handler_ok_no_next(m) ==
    /\ writes[m] = "ok"
    /\ sending' = FALSE
    /\ writes' = [writes EXCEPT ![m] = "done"]
    /\ last_send_msg' = NoMsg
    /\ UNCHANGED <<send_msg_buffer, postVars, suspend_send_msg_, linkVars, callVars, taken, sent>>

send_handler_ok_clears(m) ==
    /\ writes[m] = "ok" /\ is_send_allowed /\ send_msg_buffer # <<>>
    /\ sending' = TRUE
    /\ writes' = [writes EXCEPT ![m] = "done", ![Head(send_msg_buffer)] = "io"]
    /\ last_send_msg' = NoMsg
    /\ send_msg_buffer' = Tail(send_msg_buffer)
    /\ UNCHANGED <<postVars, suspend_send_msg_, linkVars, callVars, taken, sent>>

\* send_handler after a success: sending = false, do_send_msg, and clear the
\* memory of the last message when nothing was started.
send_handler_ok(m) ==
    /\ writes[m] = "ok"
    /\ \/ /\ ~is_send_allowed \/ send_msg_buffer = <<>>
          /\ sending' = FALSE
          /\ writes' = [writes EXCEPT ![m] = "done"]
          /\ last_send_msg' = NoMsg
          /\ UNCHANGED send_msg_buffer
       \/ /\ is_send_allowed /\ send_msg_buffer # <<>>
          /\ sending' = TRUE
          /\ writes' = [writes EXCEPT ![m] = "done", ![Head(send_msg_buffer)] = "io"]
          /\ last_send_msg' = Head(send_msg_buffer)
          /\ send_msg_buffer' = Tail(send_msg_buffer)
    /\ UNCHANGED <<postVars, suspend_send_msg_, linkVars, callVars, taken, sent>>

send_handler_err(m) ==
    /\ writes[m] = "err"
    /\ sending' = FALSE
    /\ writes' = [writes EXCEPT ![m] = "done"]
    /\ last_send_msg' = NoMsg
    /\ UNCHANGED <<send_msg_buffer, postVars, suspend_send_msg_, linkVars, callVars, taken, sent>>

\* connect_handler without error: connected, then send_msg().
connect_handler(t) ==
    /\ pc[t] = "idle" /\ link = "connecting"
    /\ link' = "up"
    /\ connected' = TRUE
    /\ pc' = [pc EXCEPT ![t] = "send_msg"]
    /\ UNCHANGED <<bufferVars, postVars, suspend_send_msg_, close_state, losses, arg, taken, sent>>

\* clean_up: cancel the timers, reset_state, close the socket, which aborts the
\* writes under way.  The buffers keep their messages.
clean_up ==
    /\ timer' = [timer EXCEPT !.armed = FALSE, !.ok = FALSE]
    /\ posting' = FALSE
    /\ sending' = FALSE
    /\ suspend_send_msg_' = FALSE
    /\ writes' = [m \in Msgs |-> IF writes[m] = "io" THEN "err" ELSE writes[m]]

\* force_close(true) by the application; the outstanding read will fail.
force_close(t) ==
    /\ pc[t] = "idle" /\ link = "up" /\ losses < MaxLosses
    /\ losses' = losses + 1
    /\ connected' = FALSE
    /\ close_state' = 1
    /\ link' = "closed"
    /\ clean_up
    /\ UNCHANGED <<send_msg_buffer, last_send_msg, post_msg_buffer, callVars, taken, sent>>

\* on_recv_error: force_close unless that was done, then start() again.
on_recv_error ==
    /\ link \in {"broken", "closed"}
    /\ \/ close_state # 1 /\ clean_up /\ connected' = FALSE
       \/ close_state = 1 /\ UNCHANGED <<timer, posting, sending, suspend_send_msg_, writes, connected>>
    /\ close_state' = 0
    /\ link' = "connecting"
    /\ UNCHANGED <<send_msg_buffer, last_send_msg, post_msg_buffer, losses, callVars, taken, sent>>

-----------------------------------------------------------------------------
(* The network and the asio runtime *)

link_breaks ==
    /\ link = "up" /\ losses < MaxLosses
    /\ link' = "broken"
    /\ losses' = losses + 1
    /\ UNCHANGED <<bufferVars, postVars, suspend_send_msg_, close_state, connected, callVars, taken, sent>>

\* An async_write ends.  Its memory may have been swapped away: then anything
\* may have been sent.
write_completes(m) ==
    /\ writes[m] = "io"
    /\ \/ /\ link = "up"
          /\ writes' = [writes EXCEPT ![m] = "ok"]
          /\ \E x \in IF last_send_msg = m THEN {m} ELSE Msgs \cup {NoMsg} : sent' = Append(sent, x)
       \/ /\ link # "up"
          /\ writes' = [writes EXCEPT ![m] = "err"]
          /\ UNCHANGED sent
    /\ UNCHANGED <<send_msg_buffer, sending, last_send_msg, postVars, suspend_send_msg_,
                   linkVars, callVars, taken>>

timer_expires ==
    /\ timer.armed
    /\ timer' = [timer EXCEPT !.armed = FALSE, !.queued = @ + 1]
    /\ UNCHANGED <<bufferVars, post_msg_buffer, posting, suspend_send_msg_, linkVars, callVars, taken, sent>>

-----------------------------------------------------------------------------
Call(t) ==
    \/ \E m \in Msgs : direct_send_msg(t, m)
    \/ \E m \in Msgs : post_finds_full(t, m)
    \/ do_direct_post_msg(t)
    \/ suspend(t)
    \/ resume(t)
    \/ send_msg(t)
    \/ connect_handler(t)
    \/ force_close(t)

Handler ==
    \/ on_timer_2
    \/ \E m \in Msgs : send_handler_ok(m)
    \/ \E m \in Msgs : send_handler_err(m)
    \/ on_recv_error

Runtime ==
    \/ link_breaks
    \/ \E m \in Msgs : write_completes(m)
    \/ timer_expires

Next == (\E t \in Threads : Call(t)) \/ Handler \/ Runtime

Spec == Init /\ [][Next]_vars

(***************************************************************************)
(* Fairness: a thread inside a call gets on, timers expire, writes         *)
(* complete and their handlers run, and a connection is made.  Nothing     *)
(* makes the application send, post, suspend, resume or close.             *)
(***************************************************************************)
Fairness ==
    /\ \A t \in Threads : WF_vars(do_direct_post_msg(t)) /\ WF_vars(send_msg(t))
    /\ \A m \in Msgs : /\ WF_vars(write_completes(m))
                       /\ WF_vars(send_handler_ok(m) \/ send_handler_err(m))
    /\ WF_vars(timer_expires) /\ WF_vars(on_timer_2)
    /\ WF_vars(on_recv_error) /\ WF_vars(\E t \in Threads : connect_handler(t))

FairSpec == Spec /\ Fairness

-----------------------------------------------------------------------------
Outstanding == \E m \in Msgs : writes[m] \in {"io", "ok"}

(***************************************************************************)
(* The send buffer is never left alone: while the link is up and sending   *)
(* allowed, a buffer that is not empty has a write whose handler will come *)
(* back to it, or a thread on its way to send_msg().  It holds across      *)
(* suspensions, closes, reconnections and late handlers.                   *)
(***************************************************************************)
SendNotStuck ==
    link = "up" /\ is_send_allowed /\ send_msg_buffer # <<>>
        => Outstanding \/ \E t \in Threads : pc[t] = "send_msg"

\* "sending" is never a leftover: on a link that is up it means that a write is
\* outstanding or its handler queued, so that it is reset again.
SendingHasWrite == sending /\ link = "up" => Outstanding

\* How the flags follow the link: nothing is sent before connect_handler.
FlagsFollowLink ==
    /\ connected <=> link \in {"up", "broken"}
    /\ sending => connected
    /\ close_state = 1 => link = "closed"

(***************************************************************************)
(* The inductive invariant behind SendNotStuck: no reconnection inherits   *)
(* sending from the old link, and sending always has a write to reset it.  *)
(***************************************************************************)
SendInv == SendNotStuck /\ SendingHasWrite /\ FlagsFollowLink

(***************************************************************************)
(* "send msg sequentially, that means second send only after first send    *)
(* success" (send_handler): one async_write at a time.                     *)
(***************************************************************************)
OneWriteAtATime ==
    \A m, n \in Msgs : writes[m] = "io" /\ writes[n] = "io" => m = n

(***************************************************************************)
(* What the socket sends is what entered send_msg_buffer, in that order,   *)
(* each message once and none destroyed while it is being sent.            *)
(***************************************************************************)
SentInOrder ==
    /\ Len(sent) <= Len(taken)
    /\ \A i \in 1..Len(sent) : sent[i] = taken[i]

(***************************************************************************)
(* "continue the timer if some msgs still left behind" (on_timer): while   *)
(* posting is set, which makes do_direct_post_msg rely on the timer and    *)
(* stops dispatching, timer 2 is running or its handler queued.            *)
(***************************************************************************)
PostingHasTimer == posting => timer.armed \/ timer.queued > 0

(***************************************************************************)
(* post_msg is "like safe_send_msg ..., but non-block" and "guarantee send *)
(* msg successfully": on a link that is up, a posted message has the timer *)
(* that will put it into the send buffer.                                  *)
(***************************************************************************)
PostNotStuck ==
    link = "up" /\ post_msg_buffer # <<>> => timer.armed \/ timer.queued > 0

(***************************************************************************)
(* A message accepted by send or post is sent in the end, while the link   *)
(* stays up and the application does not suspend: the retries of timer 2   *)
(* and the write handlers empty both buffers.                              *)
(***************************************************************************)
AcceptedIsSent ==
    \A m \in Msgs : ~Fresh(m) /\ connected ~> m \in Elements(sent) \/ suspend_send_msg_ \/ link # "up"
=============================================================================
