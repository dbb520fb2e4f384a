---------------------------- MODULE StConnector ----------------------------
(***************************************************************************)
(* A client link of st_asio_wrapper: st_connector_base on                  *)
(* st_tcp_socket_base and st_timer, owned by an st_sclient.  Handlers run  *)
(* in the order in which they were queued, on the io threads; the          *)
(* application closes the link from a thread of its own.  No lock protects *)
(* connected, reconnecting and close_state.                                *)
(***************************************************************************)
EXTENDS StTimer, Sequences, FiniteSets

CONSTANTS
    IoThreads, app,
    TICKS,          \* ticks of the countdown of graceful_close
    MaxLost,        \* bound on the links that break
    MaxRefused,     \* bound on the attempts to connect that fail
    MaxMsgs,        \* bound on the messages that arrive
    MaxCloses       \* bound on the application's calls

Threads == IoThreads \cup {app}

VARIABLES
    connected, reconnecting, started, close_state,
    io,             \* the socket, what it is doing, and the handlers queued
    timer_can,      \* timers 0, 10 and 11
    at, arg,        \* where a thread is, and the argument it was called with
    asked,          \* what was asked for last, by the application or on_unpack_error
    during,         \* what that close found the link doing (see Doing, Met)
    outrun,         \* started_ was set after the link had been cleaned up
    used            \* how much of each bound is used up

flags == <<connected, reconnecting, started, close_state>>
ghost == <<asked, during, outrun>>
vars  == <<flags, io, timer_can, at, arg, ghost, used>>

ASSUME ConnectorAssumption == app \notin IoThreads /\ TICKS \in Nat \ {0}

Ids     == {0, 10, 11}
Places  == {"idle", "broken", "restart", "started", "closing", "shutdown", "lingering", "again", "rearm"}
Limit   == [lost |-> MaxLost, refused |-> MaxRefused, msgs |-> MaxMsgs, closes |-> MaxCloses]
Spend(kind) == used[kind] < Limit[kind] /\ used' = [used EXCEPT ![kind] = @ + 1]

TypeOK ==
    /\ {connected, reconnecting, started} \subseteq BOOLEAN
    /\ close_state \in 0..2
    /\ io \in [link : {"closed", "open", "linked", "ended"}, connects : 0..1, reads : 0..1,
               queue : Seq([op : {"connect", "read"}, ec : {"ok", "refused", "failed", "aborted"}])]
    /\ timer_can \in [Ids -> TimerInfos(0..TICKS)]
    /\ at \in [Threads -> Places] /\ arg \in [Threads -> BOOLEAN]
    /\ asked \in {"nothing", "reconnect", "close"}
    /\ during \in {"nothing", "reads", "connects", "waits", "handles"} /\ outrun \in BOOLEAN

\* st_sclient::init: reset() and start(), before anything is connected.
Init ==
    /\ connected = FALSE /\ reconnecting = TRUE /\ started = TRUE /\ close_state = 0
    /\ io = [link |-> "open", connects |-> 1, reads |-> 0, queue |-> <<>>]
    /\ timer_can = [id \in Ids |-> NoTimer(0)]
    /\ at = [t \in Threads |-> "idle"] /\ arg = [t \in Threads |-> FALSE]
    /\ asked = "nothing" /\ during = "nothing" /\ outrun = FALSE
    /\ used = [kind \in DOMAIN Limit |-> 0]

-----------------------------------------------------------------------------
(* The socket (boost::asio): what a call makes of io. *)

Queued(s, op, ec) == [s EXCEPT !.queue = Append(@, [op |-> op, ec |-> ec])]

\* A socket that is connected or connecting cannot be connected.
async_connect(s) ==
    IF s.link \in {"linked", "ended"} \/ s.connects > 0 THEN Queued(s, "connect", "failed")
    ELSE [s EXCEPT !.link = "open", !.connects = 1]

async_read(s) ==
    IF s.link = "linked" THEN [s EXCEPT !.reads = @ + 1] ELSE Queued(s, "read", "failed")

Repeat(n, op) == [i \in 1..n |-> [op |-> op, ec |-> "aborted"]]
close_socket(s) ==
    [s EXCEPT !.link = "closed", !.connects = 0, !.reads = 0,
              !.queue = @ \o Repeat(s.connects, "connect") \o Repeat(s.reads, "read")]

-----------------------------------------------------------------------------
(* st_tcp_socket_base and st_connector_base. *)

clean_up(s) ==
    /\ close_state' = 1
    /\ timer_can' = stop_all_timer(timer_can)
    /\ started' = FALSE
    /\ io' = close_socket(s)

\* do_start: receive when "up" (connected), else connect.
do_start(s, up) == IF up THEN async_read(s) ELSE async_connect(s)

\* What the link is doing when it is closed: a handler of it is queued or runs,
\* a read or a connect is outstanding, or only a timer, if anything, waits.
Handling == \/ io.queue # <<>> \/ \E id \in {0, 10} : timer_can[id].queued > 0
            \/ \E t \in IoThreads : at[t] \in {"broken", "restart"}
Doing == CASE Handling -> "handles"
           [] ~Handling /\ io.reads > 0 -> "reads"
           [] ~Handling /\ io.reads = 0 /\ io.connects > 0 -> "connects"
           [] OTHER -> "waits"

\* The close met a handler of the link: one that ran within the application's
\* call, or that handles a message although connected is FALSE already.
Met(event) == during' = IF event \/ at[app] \in {"closing", "shutdown"} THEN "handles" ELSE during

Goto(t, place) == at' = [at EXCEPT ![t] = place]

\* An io thread takes the first handler; rest is io without it.
Takes(t, op) == at[t] = "idle" /\ io.queue # <<>> /\ Head(io.queue).op = op
rest == [io EXCEPT !.queue = Tail(@)]

connect_handler_ok(t) ==
    /\ Takes(t, "connect") /\ Head(io.queue).ec = "ok"
    /\ connected' = TRUE /\ reconnecting' = TRUE
    /\ io' = do_start(rest, TRUE)
    /\ Met(FALSE)
    /\ UNCHANGED <<started, close_state, timer_can, at, arg, asked, outrun, used>>

\* Mutant of connect_handler_error: no further attempt after a refusal.
connect_handler_gives_up(t) ==
    /\ Takes(t, "connect") /\ Head(io.queue).ec # "ok"
    /\ \E ec \in {Head(io.queue).ec} :
        \/ /\ ec = "aborted" /\ ~reconnecting
           /\ io' = rest /\ UNCHANGED timer_can
        \/ /\ ec # "aborted" \/ reconnecting
           /\ timer_can' = IF ec = "refused" THEN timer_can ELSE set_timer(timer_can, 10, 0)
           /\ io' = IF ec = "refused" THEN rest ELSE close_socket(rest)
    /\ Met(FALSE)
    /\ UNCHANGED <<flags, at, arg, asked, outrun, used>>

\* connect_handler with an error: timer 10 unless the link was closed for good;
\* the descriptor is kept after a refusal.
connect_handler_error(t) ==
    /\ Takes(t, "connect") /\ Head(io.queue).ec # "ok"
    /\ \E ec \in {Head(io.queue).ec} :
        \/ /\ ec = "aborted" /\ ~reconnecting
           /\ io' = rest /\ UNCHANGED timer_can
        \/ /\ ec # "aborted" \/ reconnecting
           /\ timer_can' = set_timer(timer_can, 10, 0)
           /\ io' = IF ec = "refused" THEN rest ELSE close_socket(rest)
    /\ Met(FALSE)
    /\ UNCHANGED <<flags, at, arg, asked, outrun, used>>

\* Mutant of Dispatched: reading goes on although timer 0 is set.
DispatchedReadsOn == {<<do_start(rest, connected), timer_can>>,
                      <<do_start(rest, connected), set_timer(timer_can, 0, 0)>>}

\* What dispatch_msg leaves when a message has been parsed: do_start goes on, or
\* it waits for room in the receive buffer (timer 0).
Dispatched == {<<do_start(rest, connected), timer_can>>, <<rest, set_timer(timer_can, 0, 0)>>}

\* recv_handler with a message.  When the rest cannot be unpacked, on_unpack_error
\* closes the link for good: force_close() with reconnect = false.
recv_handler(t) ==
    /\ Takes(t, "read") /\ Head(io.queue).ec = "ok"
    /\ \E d \in Dispatched :
        \/ /\ io' = d[1] /\ timer_can' = d[2]
           /\ Met(~connected)
           /\ UNCHANGED <<flags, asked>>
        \/ /\ close_state # 1
           /\ connected' = FALSE /\ reconnecting' = FALSE /\ close_state' = 1 /\ started' = FALSE
           /\ timer_can' = stop_all_timer(d[2])
           /\ io' = close_socket(d[1])
           /\ asked' = "close"
           /\ during' = IF ~connected \/ at[app] \in {"closing", "shutdown"} THEN "handles" ELSE "reads"
    /\ UNCHANGED <<at, arg, outrun, used>>

\* Mutant of on_recv_error: is_closing() is not looked at.
on_recv_error_reconnects(t) ==
    /\ Takes(t, "read") /\ Head(io.queue).ec # "ok"
    /\ \/ /\ close_state # 1
          /\ reconnecting' = TRUE
          /\ connected' = FALSE
          /\ clean_up(rest)
       \/ /\ close_state = 1
          /\ io' = rest /\ UNCHANGED <<flags, timer_can>>
    /\ Goto(t, "broken")
    /\ Met(FALSE)
    /\ UNCHANGED <<arg, asked, outrun, used>>

\* on_recv_error: force_close, ...
on_recv_error(t) ==
    /\ Takes(t, "read") /\ Head(io.queue).ec # "ok"
    /\ \/ /\ close_state # 1
          /\ reconnecting' = (close_state = 0 \/ reconnecting)
          /\ connected' = FALSE
          /\ clean_up(rest)
       \/ /\ close_state = 1
          /\ io' = rest /\ UNCHANGED <<flags, timer_can>>
    /\ Goto(t, "broken")
    /\ Met(FALSE)
    /\ UNCHANGED <<arg, asked, outrun, used>>

\* Mutant of link_broken: close_state is not reset.
link_broken_closing(t) ==
    /\ at[t] = "broken"
    /\ Goto(t, IF reconnecting THEN "restart" ELSE "idle")
    /\ Met(FALSE)
    /\ UNCHANGED <<flags, io, timer_can, arg, asked, outrun, used>>

\* ... close_state = 0, the test of reconnecting, ...
link_broken(t) ==
    /\ at[t] = "broken"
    /\ close_state' = 0
    /\ Goto(t, IF reconnecting THEN "restart" ELSE "idle")
    /\ Met(FALSE)
    /\ UNCHANGED <<connected, reconnecting, started, io, timer_can, arg, asked, outrun, used>>

\* ... and start(), under start_mutex: do_start, ...
start(t) ==
    /\ at[t] = "restart" /\ \A u \in IoThreads : at[u] # "started"
    /\ \/ started /\ Goto(t, "idle") /\ UNCHANGED io
       \/ ~started /\ Goto(t, "started") /\ io' = do_start(io, connected)
    /\ Met(FALSE)
    /\ UNCHANGED <<flags, timer_can, arg, asked, outrun, used>>

\* ... whose result is assigned to started_ after the operation has been issued.
start_returns_true(t) ==
    /\ at[t] = "started"
    /\ started' = TRUE
    /\ outrun' = (outrun \/ io.link = "closed" \/ \E u \in IoThreads : at[u] \in {"broken", "restart"})
    /\ Goto(t, "idle")
    /\ UNCHANGED <<connected, reconnecting, close_state, io, timer_can, arg, asked, during, used>>

-----------------------------------------------------------------------------
(* Timers. *)

\* on_timer(0) dispatches, on_timer(10) connects: both call do_start.
on_timer_start(t) ==
    /\ at[t] = "idle"
    /\ \E id \in {0, 10} :
        /\ timer_can[id].queued > 0
        /\ timer_can' = Taken(timer_can, id)
        /\ Met(id = 0 /\ ~connected)
    /\ io' = do_start(io, connected)
    /\ UNCHANGED <<flags, at, arg, asked, outrun, used>>

\* on_timer(11): the countdown of graceful_close.
on_timer_11(t) ==
    /\ at[t] = "idle" /\ timer_can[11].queued > 0
    /\ \/ /\ close_state # 2
          /\ timer_can' = Taken(timer_can, 11)
          /\ UNCHANGED <<flags, io, at>>
       \/ /\ close_state = 2 /\ timer_can[11].user_data > 1
          /\ timer_can' = update_timer_info(Taken(timer_can, 11), 11, timer_can[11].user_data - 1)
          /\ Goto(t, "again")
          /\ UNCHANGED <<flags, io>>
       \/ /\ close_state = 2 /\ timer_can[11].user_data <= 1
          /\ connected' = FALSE /\ close_state' = 1 /\ started' = FALSE
          /\ timer_can' = stop_all_timer(Taken(timer_can, 11))
          /\ io' = close_socket(io)
          /\ UNCHANGED <<reconnecting, at>>
    /\ UNCHANGED <<arg, ghost, used>>

\* Mutant of timer_again: the test of status is inverted.
timer_again_unless_ok(t) ==
    /\ at[t] = "again"
    /\ Goto(t, IF timer_can[11].status # "ok" THEN "rearm" ELSE "idle")
    /\ UNCHANGED <<flags, io, timer_can, arg, ghost, used>>

\* timer_handler: the test of status, then start_timer.
timer_again(t) ==
    /\ at[t] = "again"
    /\ Goto(t, IF timer_can[11].status = "ok" THEN "rearm" ELSE "idle")
    /\ UNCHANGED <<flags, io, timer_can, arg, ghost, used>>

timer_rearm(t) ==
    /\ at[t] = "rearm"
    /\ timer_can' = start_timer(timer_can, 11)
    /\ Goto(t, "idle")
    /\ UNCHANGED <<flags, io, arg, ghost, used>>

timer_expires(id) ==
    /\ timer_can[id].waiting
    /\ timer_can' = Expired(timer_can, id)
    /\ UNCHANGED <<flags, io, at, arg, ghost, used>>

-----------------------------------------------------------------------------
(* The application. *)

Asked(reconnect) ==
    /\ asked' = IF reconnect THEN "reconnect" ELSE "close"
    /\ during' = IF Handling THEN "handles" ELSE "nothing"
    /\ UNCHANGED outrun

\* The second half of the call finds the link as it is now.
Found == /\ during' = IF during = "handles" THEN during ELSE Doing
         /\ UNCHANGED <<asked, outrun>>

\* force_close: its own part, then that of st_tcp_socket_base.  graceful_close
\* of a link that is not connected does the same.
force_close(reconnect) ==
    /\ at[app] = "idle" /\ close_state # 1 /\ Spend("closes")
    /\ reconnecting' = reconnect /\ connected' = FALSE
    /\ Goto(app, "closing") /\ Asked(reconnect)
    /\ UNCHANGED <<started, close_state, io, timer_can, arg>>

force_closed ==
    /\ at[app] = "closing"
    /\ \/ close_state = 1 /\ UNCHANGED <<close_state, timer_can, started, io>>
       \/ close_state # 1 /\ clean_up(io)
    /\ Goto(app, "idle") /\ Found
    /\ UNCHANGED <<connected, reconnecting, arg, used>>

\* graceful_close of a connected link: the flags, then the shutdown.
graceful_close(reconnect, sync) ==
    /\ at[app] = "idle" /\ close_state = 0 /\ connected /\ Spend("closes")
    /\ reconnecting' = reconnect /\ connected' = FALSE
    /\ arg' = [arg EXCEPT ![app] = sync]
    /\ Goto(app, "shutdown") /\ Asked(reconnect)
    /\ UNCHANGED <<started, close_state, io, timer_can>>

graceful_shutdown ==
    /\ at[app] = "shutdown"
    /\ \/ /\ close_state # 0
          /\ Goto(app, "idle")
          /\ UNCHANGED <<close_state, timer_can, started, io>>
       \/ /\ close_state = 0 /\ io.link # "linked"
          /\ clean_up(io) /\ Goto(app, "idle")
       \/ /\ close_state = 0 /\ io.link \in {"linked", "ended"}
          /\ close_state' = 2
          /\ \/ arg[app] /\ Goto(app, "lingering") /\ UNCHANGED timer_can
             \/ ~arg[app] /\ Goto(app, "idle") /\ timer_can' = set_timer(timer_can, 11, TICKS)
          /\ UNCHANGED <<started, io>>
    /\ Found
    /\ UNCHANGED <<connected, reconnecting, arg, used>>

\* sync: until close_state is 0, or too long; the time-out does not look at
\* close_state again, and may come after the end of the link.
graceful_closed ==
    /\ at[app] = "lingering"
    /\ \/ close_state = 0 /\ UNCHANGED <<close_state, timer_can, started, io, ghost>>
       \/ /\ clean_up(io)
          /\ during' = IF close_state # 2 \/ Handling THEN "handles" ELSE during
          /\ UNCHANGED <<asked, outrun>>
    /\ Goto(app, "idle")
    /\ UNCHANGED <<connected, reconnecting, arg, used>>

Of(op) == Cardinality({i \in DOMAIN io.queue : io.queue[i].op = op})
Quiet  == /\ io.reads = 0 /\ io.connects = 0 /\ io.queue = <<>>
          /\ \A id \in Ids : ~Busy(timer_can, id)
          /\ \A t \in Threads : at[t] = "idle"

\* The pump ends when nothing is left to do; started again, it calls
\* st_sclient::init: reset() and start().
restart ==
    /\ Quiet
    /\ connected' = FALSE /\ reconnecting' = TRUE /\ started' = TRUE /\ close_state' = 0
    /\ io' = async_connect(io)
    /\ asked' = "nothing" /\ during' = "nothing" /\ outrun' = FALSE
    /\ UNCHANGED <<timer_can, at, arg, used>>

-----------------------------------------------------------------------------
(* The server and the network. *)

connect_completes ==
    /\ io.connects > 0
    /\ \E s \in {[io EXCEPT !.connects = 0]} :
        \/ io' = Queued([s EXCEPT !.link = "linked"], "connect", "ok") /\ UNCHANGED used
        \/ Spend("refused") /\ \E ec \in {"refused", "failed"} : io' = Queued(s, "connect", ec)
    /\ UNCHANGED <<flags, timer_can, at, arg, ghost>>

msg_arrives ==
    /\ io.reads > 0 /\ Spend("msgs")
    /\ io' = Queued([io EXCEPT !.reads = @ - 1], "read", "ok")
    /\ UNCHANGED <<flags, timer_can, at, arg, ghost>>

\* A server answers the end of a link that is closed gracefully.
peer_closes ==
    /\ io.reads > 0
    /\ io' = Queued([io EXCEPT !.reads = @ - 1, !.link = "ended"], "read", "failed")
    /\ \/ close_state = 2 /\ UNCHANGED used
       \/ close_state # 2 /\ Spend("lost")
    /\ UNCHANGED <<flags, timer_can, at, arg, ghost>>

IoStep(t) ==
    \/ connect_handler_ok(t) \/ connect_handler_error(t) \/ recv_handler(t)
    \/ on_recv_error(t) \/ link_broken(t) \/ start(t) \/ start_returns_true(t)
    \/ on_timer_start(t) \/ on_timer_11(t) \/ timer_again(t) \/ timer_rearm(t)
AppStep == force_closed \/ graceful_shutdown \/ graceful_closed

Next ==
    \/ \E t \in IoThreads : IoStep(t)
    \/ \E id \in Ids : timer_expires(id)
    \/ AppStep
    \/ \E reconnect \in BOOLEAN : \/ force_close(reconnect)
                                 \/ \E sync \in BOOLEAN : graceful_close(reconnect, sync)
    \/ restart
    \/ connect_completes \/ msg_arrives \/ peer_closes

Spec == Init /\ [][Next]_vars

-----------------------------------------------------------------------------
\* What drives the link on: an operation of the socket, its handler, timer 0
\* or 10, or an io thread in on_recv_error.
Chains == io.reads + io.connects + Len(io.queue)
          + timer_can[0].queued + timer_can[10].queued
          + Cardinality({id \in {0, 10} : timer_can[id].waiting})
          + Cardinality({t \in IoThreads : at[t] \in {"broken", "restart"}})

(***************************************************************************)
(* The link is driven by one chain of handlers at most, whenever it is     *)
(* closed and reconnected and by whom: never two reads into the unpacker's *)
(* buffer, never two connects, no timer that starts a second one.  Only    *)
(* this makes the unlocked flags of the connector bearable.                *)
(***************************************************************************)
OneChain == Chains <= 1

(***************************************************************************)
(* A link that has been connected again can send: is_send_allowed() asks   *)
(* for close_state = 0, and whoever ended the former link - the server,    *)
(* force_close or graceful_close with reconnect = true while it was        *)
(* reading - close_state is 0 again.  Only on_recv_error resets it: a link *)
(* closed while it connects is connected by timer 10 with close_state 1,   *)
(* cannot send for good and ignores every further close; a close that met  *)
(* a handler of the link may do the same.                                  *)
(***************************************************************************)
LinkIsUsable == connected /\ close_state # 0 => during \in {"connects", "handles"}

(***************************************************************************)
(* A link closed for good, by the application or because what it received  *)
(* cannot be unpacked, is neither connected nor about to be: whatever it   *)
(* was doing - reading, connecting, waiting for timer 0 or 10 - the        *)
(* handlers of the aborted operations do not connect it.  The race of the  *)
(* close with a handler that is queued or runs, that of an expired timer   *)
(* 10 included, is excepted here: StoppedStaysStopped shows what it does.  *)
(***************************************************************************)
ClosedStaysClosed ==
    asked = "close" /\ at[app] # "closing" /\ during # "handles" =>
        ~connected /\ io.connects = 0 /\ ~Busy(timer_can, 10)

(***************************************************************************)
(* Fairness: io threads take handlers, timers expire, a call of the        *)
(* application goes on (or times out), and an attempt to connect ends.     *)
(* The server owes nothing: no message, no answer to a graceful close.     *)
(***************************************************************************)
Fairness ==
    /\ WF_vars(\E t \in IoThreads : IoStep(t))
    /\ WF_vars(\E id \in Ids : timer_expires(id))
    /\ WF_vars(AppStep)
    /\ WF_vars(connect_completes)
FairSpec == Spec /\ Fairness

(***************************************************************************)
(* A link that breaks or is refused comes up again, and so does one that   *)
(* is closed with reconnect = true while it reads or connects:             *)
(* on_recv_error and connect_handler go on.  Not a link on_unpack_error    *)
(* closed (asked is "close"), nor one closed while nothing but timer 0 or  *)
(* 10 waits (see CloseTrueReconnects) or in a race with a handler, nor one *)
(* whose start() set started_ when on_recv_error had cleaned up already.   *)
(***************************************************************************)
Reconnects ==
    asked # "close" ~>
        connected \/ asked = "close" \/ during \in {"waits", "handles"} \/ outrun

(***************************************************************************)
(* A link closed for good comes to rest, whether or not the server answers *)
(* the end of the link: the countdown of a graceful close ends, and no     *)
(* aborted handler starts it again.  stop_service of the pump waits for    *)
(* this.                                                                   *)
(***************************************************************************)
CloseEnds == asked = "close" ~> Quiet \/ asked # "close" \/ during = "handles"

-----------------------------------------------------------------------------
(* What st_asio_wrapper.h says, without those exceptions; each has a
   configuration of its own, in which TLC finds the counterexample. *)

(***************************************************************************)
(* "Add reconnecting support to st_connector class: use true to invoke     *)
(* force_close or graceful_close": not while timer 10 runs, which clean_up *)
(* stops and nobody sets again.                                            *)
(***************************************************************************)
CloseTrueReconnects == asked = "reconnect" ~> connected \/ asked # "reconnect"

(***************************************************************************)
(* "Fix st_client bug: after stop_server(), st_client may still try to     *)
(* re-connect to the server": it does when a message is handled after      *)
(* connected was set to false, since dispatch_msg calls do_start.          *)
(***************************************************************************)
StoppedStaysStopped == asked = "close" /\ at[app] = "idle" => io.connects = 0
=============================================================================
