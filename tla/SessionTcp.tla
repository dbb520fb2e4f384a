----------------------------- MODULE SessionTcp -----------------------------
(***************************************************************************)
(* One connected client of the echo server: class session_tcp of           *)
(* asio_test/connection.{h,cpp}.                                           *)
(*                                                                         *)
(* Every async_read / async_write of the session completes in the kernel   *)
(* and queues its handler; any idle io thread (a thread inside             *)
(* io_service::run) may execute it.  The code uses no strand, so handlers  *)
(* of one session run concurrently on several io threads, and write() may  *)
(* also be called by an application thread (write_to_all, or a session     *)
(* looked up with find).  One action is one critical section of mutex_, so *)
(* a function that locks twice (write and handler_write_body both call     *)
(* do_write after unlocking) is two actions of the same thread.            *)
(*                                                                         *)
(* A "write chain" is the sequence do_write, handler_write_header,         *)
(* handler_write_body, do_write, ... started by one call of write() that   *)
(* found the queue empty; it is named after the message of that call.      *)
(***************************************************************************)
EXTENDS Naturals, Sequences, FiniteSets

CONSTANTS
    IoThreads,    \* threads that run io_service::run
    AppThreads,   \* other threads that call session_tcp::write
    ClientMsgs,   \* messages the client may send (their number bounds a run)
    AppMsgs,      \* messages the application may write
    NoMsg,        \* the absence of a message
    NoThread      \* the absence of a thread

Threads == IoThreads \cup AppThreads
Msgs    == ClientMsgs \cup AppMsgs

ASSUME SessionAssumption ==
    /\ NoMsg \notin Msgs
    /\ NoThread \notin Threads
    /\ IoThreads \cap AppThreads = {}
    /\ ClientMsgs \cap AppMsgs = {}

VARIABLES
    msg_queue_,   \* the deque of messages to send; the front one is being sent
    chain,        \* chain[m]: the phase of the write chain started by write(m)
    op,           \* op[c]: the message whose buffer chain c's operation uses
    runs,         \* runs[t]: the chain whose do_write thread t is about to run
    read,         \* phase of the read chain
    reader,       \* the thread inside handler_read_body, if any
    joined,       \* the session is in connection_mgr::connection_list_
    link,         \* "up", "eof" (the peer closed its side) or "down"
    accepted,     \* history: messages given to write(), in the queue's order
    freed,        \* messages handed to dellocate_msg_buffer
    wire,         \* history: what the socket was made to send, in order
    doubled       \* history: a write() fell between a pop and its do_write

vars == <<msg_queue_, chain, op, runs, read, reader, joined, link,
          accepted, freed, wire, doubled>>

WritePhases == {"none", "do_write", "hdr_io", "hdr_ok", "hdr_err",
                "body_io", "body_ok", "body_err", "end", "failed"}
ReadPhases  == {"none", "hdr_io", "hdr_ok", "hdr_err", "body_io", "body_ok",
                "body_err", "processing", "end"}
Segments    == [part : {"header", "body"}, msg : Msgs \cup {NoMsg}]

TypeOK ==
    /\ msg_queue_ \in Seq(Msgs)
    /\ chain \in [Msgs -> WritePhases]
    /\ op \in [Msgs -> Msgs \cup {NoMsg}]
    /\ runs \in [Threads -> Msgs \cup {NoMsg}]
    /\ read \in ReadPhases
    /\ reader \in Threads \cup {NoThread}
    /\ joined \in BOOLEAN
    /\ link \in {"up", "eof", "down"}
    /\ accepted \in Seq(Msgs)
    /\ freed \subseteq Msgs
    /\ wire \in Seq(Segments)
    /\ doubled \in BOOLEAN

\* The constructor: an empty queue, not yet started, not yet in the list.
Init ==
    /\ msg_queue_ = <<>>
    /\ chain = [m \in Msgs |-> "none"]
    /\ op = [m \in Msgs |-> NoMsg]
    /\ runs = [t \in Threads |-> NoMsg]
    /\ read = "none"
    /\ reader = NoThread
    /\ joined = FALSE
    /\ link = "up"
    /\ accepted = <<>>
    /\ freed = {}
    /\ wire = <<>>
    /\ doubled = FALSE

-----------------------------------------------------------------------------
Idle(t)  == runs[t] = NoMsg
Fresh(m) == \A i \in 1..Len(accepted) : accepted[i] # m

\* do_read: async_read of the next header.
do_read == read' = "hdr_io"

\* connection_mgr::leave: the session leaves the list; nothing else is undone.
leave == joined' = FALSE

\* A thread has popped the last message, released mutex_ and not yet called
\* do_write.
BetweenPopAndWrite == msg_queue_ = <<>> /\ \E t \in Threads : runs[t] # NoMsg

\* Mutant of write: the message is pushed at the front.
write_push_front(t, m) ==
    /\ accepted' = Append(accepted, m)
    /\ doubled' = (doubled \/ BetweenPopAndWrite)
    /\ msg_queue_' = <<m>> \o msg_queue_
    /\ \/ /\ msg_queue_ = <<>>
          /\ runs' = [runs EXCEPT ![t] = m]
          /\ chain' = [chain EXCEPT ![m] = "do_write"]
       \/ msg_queue_ # <<>> /\ UNCHANGED <<runs, chain>>

\* write(msg): push; when the queue was empty, go on to do_write with the lock
\* released, otherwise the chain that is sending the front message gets to it.
\* Between the pop and the do_write of another thread the queue is empty although
\* a chain goes on: the second chain then started makes the session "doubled".
write(t, m) ==
    /\ accepted' = Append(accepted, m)
    /\ doubled' = (doubled \/ BetweenPopAndWrite)
    /\ msg_queue_' = Append(msg_queue_, m)
    /\ \/ /\ msg_queue_ = <<>>
          /\ runs' = [runs EXCEPT ![t] = m]
          /\ chain' = [chain EXCEPT ![m] = "do_write"]
       \/ msg_queue_ # <<>> /\ UNCHANGED <<runs, chain>>

\* do_write with the lock held: start the header of the front message, if any.
\* A thread that came from handler_read_body then issues the next read.
do_write(t, c) ==
    /\ runs[t] = c
    /\ c # NoMsg
    /\ runs' = [runs EXCEPT ![t] = NoMsg]
    /\ \/ /\ msg_queue_ = <<>>
          /\ chain' = [chain EXCEPT ![c] = "end"]
          /\ UNCHANGED op
       \/ /\ msg_queue_ # <<>>
          /\ chain' = [chain EXCEPT ![c] = "hdr_io"]
          /\ op' = [op EXCEPT ![c] = Head(msg_queue_)]
    /\ read' = IF reader = t THEN "hdr_io" ELSE read
    /\ reader' = IF reader = t THEN NoThread ELSE reader
    /\ UNCHANGED <<msg_queue_, joined, link, accepted, freed, wire, doubled>>

-----------------------------------------------------------------------------
\* start: join the list (connection_mgr::join succeeds here; ServerTcp models
\* the refusal) and issue the first read.
start(t) ==
    /\ Idle(t) /\ read = "none"
    /\ joined' = TRUE
    /\ do_read
    /\ UNCHANGED <<msg_queue_, chain, op, runs, reader, link, accepted, freed, wire, doubled>>

\* Mutant of handler_read_header: a failed read does not leave the list.
handler_read_header_no_leave(t) ==
    /\ Idle(t)
    /\ \/ read = "hdr_ok"  /\ read' = "body_io"
       \/ read = "hdr_err" /\ read' = "end"
    /\ UNCHANGED <<msg_queue_, chain, op, runs, reader, joined, link, accepted, freed, wire, doubled>>

handler_read_header(t) ==
    /\ Idle(t)
    /\ \/ read = "hdr_ok"  /\ read' = "body_io" /\ UNCHANGED joined
       \/ read = "hdr_err" /\ read' = "end"     /\ leave
    /\ UNCHANGED <<msg_queue_, chain, op, runs, reader, link, accepted, freed, wire, doubled>>

\* ProcessMsg takes a buffer for the received message m (MsgPool), fills it and
\* echoes it: ProcessMsg_business calls write.
ProcessMsg(t, m) == Fresh(m) /\ write(t, m)

\* do_read follows when write() returns: at once when it only had to push.
handler_read_body_ok(t, m) ==
    /\ Idle(t) /\ read = "body_ok"
    /\ ProcessMsg(t, m)
    /\ \/ msg_queue_ = <<>> /\ read' = "processing" /\ reader' = t
       \/ msg_queue_ # <<>> /\ do_read /\ UNCHANGED reader
    /\ UNCHANGED <<op, joined, link, freed, wire>>

handler_read_body_err(t) ==
    /\ Idle(t) /\ read = "body_err"
    /\ read' = "end"
    /\ leave
    /\ UNCHANGED <<msg_queue_, chain, op, runs, reader, link, accepted, freed, wire, doubled>>

\* Mutant of handler_write_header: the message is freed before its body is sent.
handler_write_header_frees(t, c) ==
    /\ Idle(t) /\ chain[c] = "hdr_ok" /\ msg_queue_ # <<>>
    /\ chain' = [chain EXCEPT ![c] = "body_io"]
    /\ op' = [op EXCEPT ![c] = Head(msg_queue_)]
    /\ freed' = freed \cup {Head(msg_queue_)}
    /\ UNCHANGED <<msg_queue_, runs, read, reader, joined, link, accepted, wire, doubled>>

handler_write_header(t, c) ==
    /\ Idle(t)
    /\ \/ /\ chain[c] = "hdr_ok" /\ msg_queue_ = <<>>
          /\ chain' = [chain EXCEPT ![c] = "end"]
          /\ UNCHANGED <<op, joined>>
       \/ /\ chain[c] = "hdr_ok" /\ msg_queue_ # <<>>
          /\ chain' = [chain EXCEPT ![c] = "body_io"]
          /\ op' = [op EXCEPT ![c] = Head(msg_queue_)]
          /\ UNCHANGED joined
       \/ /\ chain[c] = "hdr_err"
          /\ chain' = [chain EXCEPT ![c] = "failed"]
          /\ leave
          /\ UNCHANGED op
    /\ UNCHANGED <<msg_queue_, runs, read, reader, link, accepted, freed, wire, doubled>>

\* Mutant of handler_write_body: do_write is not called again.
handler_write_body_no_next(t, c) ==
    /\ Idle(t) /\ chain[c] = "body_ok" /\ msg_queue_ # <<>>
    /\ freed' = freed \cup {Head(msg_queue_)}
    /\ msg_queue_' = Tail(msg_queue_)
    /\ chain' = [chain EXCEPT ![c] = "end"]
    /\ UNCHANGED <<op, runs, read, reader, joined, link, accepted, wire, doubled>>

\* Success: free and pop whatever message is in front now, release the lock,
\* then call do_write.
handler_write_body_ok(t, c) ==
    /\ Idle(t) /\ chain[c] = "body_ok"
    /\ \/ /\ msg_queue_ # <<>>
          /\ freed' = freed \cup {Head(msg_queue_)}
          /\ msg_queue_' = Tail(msg_queue_)
       \/ msg_queue_ = <<>> /\ UNCHANGED <<freed, msg_queue_>>
    /\ chain' = [chain EXCEPT ![c] = "do_write"]
    /\ runs' = [runs EXCEPT ![t] = c]
    /\ UNCHANGED <<op, read, reader, joined, link, accepted, wire, doubled>>

\* Failure: leave the list; the queue keeps its messages.
handler_write_body_err(t, c) ==
    /\ Idle(t) /\ chain[c] = "body_err"
    /\ chain' = [chain EXCEPT ![c] = "failed"]
    /\ leave
    /\ UNCHANGED <<msg_queue_, op, runs, read, reader, link, accepted, freed, wire, doubled>>

\* write() by an application thread that holds the session's shared_ptr.
app_write(t, m) ==
    /\ Idle(t) /\ read # "none" /\ Fresh(m)
    /\ write(t, m)
    /\ UNCHANGED <<op, read, reader, joined, link, freed, wire>>

\* connection_mgr::stop on a session of the list: shut down, cancel and close
\* the socket, empty the list.
mgr_stop ==
    /\ joined
    /\ joined' = FALSE
    /\ link' = "down"
    /\ UNCHANGED <<msg_queue_, chain, op, runs, read, reader, accepted, freed, wire, doubled>>

-----------------------------------------------------------------------------
(* The network and the asio runtime. *)

peer_eof ==
    /\ link = "up" /\ link' = "eof"
    /\ UNCHANGED <<msg_queue_, chain, op, runs, read, reader, joined, accepted, freed, wire, doubled>>

peer_reset ==
    /\ link # "down" /\ link' = "down"
    /\ UNCHANGED <<msg_queue_, chain, op, runs, read, reader, joined, accepted, freed, wire, doubled>>

\* What a buffer holds when it is sent: a freed one may be deleted, or be
\* recycled for any other message.
BufferContents(m) == IF m \in freed THEN Msgs \cup {NoMsg} ELSE {m}

Sends(part, c) ==
    \E m \in BufferContents(op[c]) : wire' = Append(wire, [part |-> part, msg |-> m])

write_header_completes(c) ==
    /\ chain[c] = "hdr_io"
    /\ \/ /\ link # "down" /\ Sends("header", c)
          /\ chain' = [chain EXCEPT ![c] = "hdr_ok"]
       \/ /\ link = "down" /\ UNCHANGED wire
          /\ chain' = [chain EXCEPT ![c] = "hdr_err"]
    /\ UNCHANGED <<msg_queue_, op, runs, read, reader, joined, link, accepted, freed, doubled>>

write_body_completes(c) ==
    /\ chain[c] = "body_io"
    /\ \/ /\ link # "down" /\ Sends("body", c)
          /\ chain' = [chain EXCEPT ![c] = "body_ok"]
       \/ /\ link = "down" /\ UNCHANGED wire
          /\ chain' = [chain EXCEPT ![c] = "body_err"]
    /\ UNCHANGED <<msg_queue_, op, runs, read, reader, joined, link, accepted, freed, doubled>>

read_arrives ==
    /\ link = "up"
    /\ \/ read = "hdr_io"  /\ read' = "hdr_ok"
       \/ read = "body_io" /\ (\E m \in ClientMsgs : Fresh(m)) /\ read' = "body_ok"
    /\ UNCHANGED <<msg_queue_, chain, op, runs, reader, joined, link, accepted, freed, wire, doubled>>

read_fails ==
    /\ link # "up"
    /\ \/ read = "hdr_io"  /\ read' = "hdr_err"
       \/ read = "body_io" /\ read' = "body_err"
    /\ UNCHANGED <<msg_queue_, chain, op, runs, reader, joined, link, accepted, freed, wire, doubled>>

-----------------------------------------------------------------------------
IoStep(t) ==
    \/ start(t)
    \/ handler_read_header(t)
    \/ handler_read_body_err(t)
    \/ \E m \in ClientMsgs : handler_read_body_ok(t, m)
    \/ \E c \in Msgs : handler_write_header(t, c)
    \/ \E c \in Msgs : handler_write_body_ok(t, c)
    \/ \E c \in Msgs : handler_write_body_err(t, c)

Network ==
    \/ mgr_stop
    \/ peer_eof
    \/ peer_reset
    \/ read_arrives
    \/ read_fails
    \/ \E c \in Msgs : write_header_completes(c)
    \/ \E c \in Msgs : write_body_completes(c)

Next ==
    \/ \E t \in Threads, c \in Msgs : do_write(t, c)
    \/ \E t \in IoThreads : IoStep(t)
    \/ \E t \in AppThreads, m \in AppMsgs : app_write(t, m)
    \/ Network

Spec == Init /\ [][Next]_vars

(***************************************************************************)
(* Fairness: a thread inside do_write gets on, an io thread that is free   *)
(* takes a queued handler, the kernel finishes a write (the peer keeps     *)
(* reading) and reports a broken link.  Nothing makes the client send, the *)
(* application write, or the link break.                                   *)
(***************************************************************************)
Fairness ==
    /\ \A t \in Threads : WF_vars(\E c \in Msgs : do_write(t, c))
    /\ WF_vars(\E t \in IoThreads :
                 \/ handler_read_header(t)
                 \/ handler_read_body_err(t)
                 \/ \E m \in ClientMsgs : handler_read_body_ok(t, m))
    /\ WF_vars(read_fails)
    /\ \A c \in Msgs :
        /\ WF_vars(\E t \in IoThreads : \/ handler_write_header(t, c)
                                        \/ handler_write_body_ok(t, c)
                                        \/ handler_write_body_err(t, c))
        /\ WF_vars(write_header_completes(c))
        /\ WF_vars(write_body_completes(c))

FairSpec == Spec /\ Fairness

-----------------------------------------------------------------------------
Alive(c)  == chain[c] \notin {"none", "end", "failed"}
Failed    == \E c \in Msgs : chain[c] = "failed"
InFlight(c) == chain[c] \in {"hdr_io", "body_io"}

(***************************************************************************)
(* No message is stranded: while the queue is not empty, some write chain  *)
(* is under way to send it, unless a write of this session failed.  write  *)
(* starts a chain only when it finds the queue empty and otherwise trusts  *)
(* the running chain to come back to do_write; this holds however many     *)
(* threads interleave.                                                     *)
(***************************************************************************)
NoStrandedMessage ==
    msg_queue_ # <<>> => Failed \/ \E c \in Msgs : Alive(c)

(***************************************************************************)
(* A session of connection_list_ still has a read outstanding (or its      *)
(* handler under way): the handler that ends the read chain also leaves,   *)
(* so the list holds no dead session that would use up a slot for ever.    *)
(***************************************************************************)
ListedSessionReads ==
    joined => read \notin {"none", "end"}

(***************************************************************************)
(* "We can not send multiple data at one time, should be one after one"    *)
(* (the comment on msg_queue_): at most one async_write is outstanding.    *)
(***************************************************************************)
OneWriteAtATime ==
    \A c, d \in Msgs : InFlight(c) /\ InFlight(d) => c = d

\* Header, body, header, body, ... of the accepted messages, in their order.
WireInOrder ==
    \A i \in 1..Len(accepted) :
        /\ 2*i - 1 <= Len(wire) => wire[2*i - 1] = [part |-> "header", msg |-> accepted[i]]
        /\ 2*i <= Len(wire) => wire[2*i] = [part |-> "body", msg |-> accepted[i]]

(***************************************************************************)
(* The socket sends whole messages, in the order write() took them, none   *)
(* skipped, repeated, mixed up or overtaken, by however many io and        *)
(* application threads the session is served: the only interleaving that   *)
(* breaks the order is a write() that finds the queue empty while another  *)
(* thread is between its pop and its do_write.  With that interleaving the *)
(* order is lost (OneWriteAtATime).                                        *)
(***************************************************************************)
WireIsFifo == ~doubled => WireInOrder

(***************************************************************************)
(* A buffer goes back to the pool once: what is freed is in the queue no   *)
(* more, whatever the threads do.  Until two chains meet, it goes back     *)
(* only when its message is completely on the wire and no operation refers *)
(* to it any more.                                                         *)
(***************************************************************************)
FreedAfterSent ==
    /\ \A i \in 1..Len(msg_queue_) : msg_queue_[i] \notin freed
    /\ ~doubled =>
        /\ \A c \in Msgs : InFlight(c) => op[c] \notin freed
        /\ \A m \in freed : \E i \in 1..Len(wire) : wire[i] = [part |-> "body", msg |-> m]

(***************************************************************************)
(* Every message given to write() is in the end handed back to the pool,   *)
(* unless the link breaks: no interleaving of the chains leaves one in the *)
(* queue.                                                                  *)
(***************************************************************************)
AcceptedIsReleased ==
    \A m \in Msgs : ~Fresh(m) ~> (m \in freed \/ link = "down")

(***************************************************************************)
(* When the link breaks, the session leaves connection_list_ in the end,   *)
(* also when it is in the middle of echoing: every path through a failed   *)
(* operation reaches leave().                                              *)
(***************************************************************************)
BrokenSessionLeaves ==
    link # "up" /\ joined ~> ~joined

-----------------------------------------------------------------------------
(***************************************************************************)
(* Why the order holds until two chains meet: a push on an empty queue     *)
(* starts a chain, and with the queue empty the only place where another   *)
(* chain can still be is between a pop and the do_write that follows it.   *)
(***************************************************************************)
Started(c) == chain[c] \notin {"none", "end"}
Sent       == Len(accepted) - Len(msg_queue_)   \* messages popped so far

\* The queue is what remains of the accepted messages, which are distinct.
QueueIsRest ==
    /\ Len(msg_queue_) <= Len(accepted)
    /\ \A i \in 1..Len(msg_queue_) : msg_queue_[i] = accepted[Sent + i]
    /\ \A i, j \in 1..Len(accepted) : accepted[i] = accepted[j] => i = j
    /\ \A m \in freed : \E i \in 1..Sent : m = accepted[i]

\* One chain at a time, whose do_write is pending exactly in the one thread
\* that runs it, and which has a message to send in every other phase.
OneChain ==
    /\ \A c, d \in Msgs : Started(c) /\ Started(d) => c = d
    /\ \A t, u \in Threads : runs[t] # NoMsg /\ runs[u] # NoMsg => t = u
    /\ \A t \in Threads : runs[t] # NoMsg => chain[runs[t]] = "do_write"
    /\ \A c \in Msgs : chain[c] = "do_write" => \E t \in Threads : runs[t] = c
    /\ \A c \in Msgs : Started(c) /\ chain[c] # "do_write" => msg_queue_ # <<>>
    /\ \A c \in Msgs : InFlight(c) => op[c] = Head(msg_queue_)

\* How much has been sent in each phase of the chain.
WireMatchesChain ==
    /\ \A c \in Msgs :
        /\ chain[c] \in {"do_write", "hdr_io", "hdr_err"} => Len(wire) = 2 * Sent
        /\ chain[c] \in {"hdr_ok", "body_io", "body_err"} => Len(wire) = 2 * Sent + 1
        /\ chain[c] = "body_ok" => Len(wire) = 2 * Sent + 2
        /\ chain[c] = "failed" => Len(wire) \in {2 * Sent, 2 * Sent + 1}
    /\ (\A c \in Msgs : ~Started(c)) => Len(wire) = 2 * Sent

(***************************************************************************)
(* The inductive invariant: the queue is the unsent rest of what write()   *)
(* took; and, until a write() makes two chains of one, one chain works on  *)
(* it, and the wire is exactly as long as that chain's phase says.         *)
(***************************************************************************)
SessionInv ==
    /\ QueueIsRest
    /\ ~doubled => OneChain /\ WireMatchesChain /\ WireInOrder

-----------------------------------------------------------------------------
\* The messages whose last byte the socket has sent, in the order of sending.
Delivered == [i \in 1..(Len(wire) \div 2) |-> wire[2*i].msg]

Echo == INSTANCE EchoChannel WITH
            Messages <- Msgs, accepted <- accepted, delivered <- Delivered,
            up <- (link # "down"), intact <- ~doubled

(***************************************************************************)
(* A session, served by any threads, implements EchoChannel: while the     *)
(* link holds and the channel is intact every accepted message is          *)
(* delivered whole, in order, and in the end; and it stays intact unless   *)
(* a message is accepted just when all the former ones are delivered.      *)
(***************************************************************************)
ImplementsEchoChannel == Echo!ChannelSpec
=============================================================================
