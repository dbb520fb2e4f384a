------------------------------ MODULE StServer ------------------------------
(***************************************************************************)
(* A server of st_asio_wrapper on its service pump: st_server_base         *)
(* (accepting, closing), st_object_pool (object_can, temp_object_can,      *)
(* reuse) and the life cycle of st_server_socket_base, in the              *)
(* configuration of asio_server.cpp: REUSE_OBJECT, ENHANCED_STABILITY,     *)
(* CLOSED_SOCKET_MAX_DURATION 0.                                           *)
(*                                                                         *)
(* One action is one critical section of object_can_mutex or               *)
(* temp_object_can_mutex, or what a handler does between two of them.      *)
(* Threads are the io threads and the application thread "main", which     *)
(* also calls the pump.                                                    *)
(***************************************************************************)
EXTENDS StServicePump, Sequences, SequencesExt, FiniteSets

CONSTANTS
    Objects,              \* addresses of sockets (bounds the clients at a time)
    IoThreads, main,
    NoObject,
    MAX_OBJECT_NUM,
    ENHANCED_STABILITY,
    MaxEvents,            \* bound on messages and failing system calls, together
    MaxClients,           \* bound on the clients that connect
    MaxRefused,           \* bound on the messages that on_msg_handle refuses
    MaxCalls              \* bound on the application's calls

Threads == IoThreads \cup {main}

VARIABLES
    acceptor,             \* "closed", "open" or "listening"
    accept,               \* accept[o]: the async_accept that will fill socket o
    object_can,
    temp_object_can,
    sock,                 \* the sockets
    at, obj,              \* where a thread is, and the client_ptr it holds
    asked,                \* objects the application or uninit() closed
    overlapped,           \* init() ran before all handlers of the last run had
    late,                 \* objects handed to an accept while a msg_handler was queued
    outrun,               \* objects marked started after their link had been cleaned up
    used                  \* how much of each bound is used up

listener == <<acceptor, accept>>
pool     == <<object_can, temp_object_can>>
thread   == <<at, obj>>
ghost    == <<asked, overlapped, late, outrun>>
server == <<listener, pool, sock, thread, ghost, used>>
vars   == <<pump, server>>

ASSUME ServerAssumption == main \notin IoThreads /\ NoObject \notin Objects /\ IsFiniteSet(Objects)

(* close is close_state; open: the descriptor; read and write: the async_read
   and the async_write and their handlers ("ok", "err", "queued", and "ending"
   while on_recv_error is under way); recv: how
   many messages recv_msg_buffer holds; posted: how many msg_handlers are
   queued; timer: timer 0; redo, linger: timers 3 and 10, which expire (with
   timer 10, at the end of its countdown) in the step in which the handler
   runs. *)
ReadPhases == {"none", "io", "ok", "err", "ending"}
Sockets == [started : BOOLEAN, close : 0..2, open : BOOLEAN, read : ReadPhases,
            write : {"none", "io", "queued"}, recv : Nat, dispatching : BOOLEAN, posted : Nat,
            timer : {"none", "armed", "queued"}, redo : BOOLEAN, linger : BOOLEAN]
NewSocket == [started |-> FALSE, close |-> 0, open |-> FALSE, read |-> "none", write |-> "none",
              recv |-> 0, dispatching |-> FALSE, posted |-> 0,
              timer |-> "none", redo |-> FALSE, linger |-> FALSE]

Bounds == {"fails", "msgs", "refused", "clients", "calls"}
Spend(kind) ==
    /\ CASE kind = "clients" -> used.clients < MaxClients
         [] kind = "calls"   -> used.calls < MaxCalls
         [] kind = "refused" -> used.refused < MaxRefused
         [] OTHER            -> used.fails + used.msgs < MaxEvents
    /\ used' = [used EXCEPT ![kind] = @ + 1]

Places == {"idle", "start", "started", "next", "push", "close", "reset", "linger"}

TypeOK ==
    /\ PumpTypeOK
    /\ acceptor \in {"closed", "open", "listening"}
    /\ accept \in [Objects -> {"none", "io", "ok", "err"}]
    /\ object_can \subseteq Objects
    /\ temp_object_can \in Seq(Objects)
    /\ sock \in [Objects -> Sockets]
    /\ at \in [Threads -> Places]
    /\ obj \in [Threads -> Objects \cup {NoObject}]
    /\ asked \subseteq Objects /\ overlapped \in BOOLEAN
    /\ late \subseteq Objects /\ outrun \subseteq Objects
    /\ used \in [Bounds -> Nat]

Init ==
    /\ PumpInit
    /\ acceptor = "closed"
    /\ accept = [o \in Objects |-> "none"]
    /\ object_can = {} /\ temp_object_can = <<>>
    /\ sock = [o \in Objects |-> NewSocket]
    /\ at = [t \in Threads |-> "idle"]
    /\ obj = [t \in Threads |-> NoObject]
    /\ asked = {} /\ overlapped = FALSE /\ late = {} /\ outrun = {}
    /\ used = [kind \in Bounds |-> 0]

-----------------------------------------------------------------------------
(* The sockets. *)

\* st_tcp_socket_base::clean_up: reading and writing is aborted, waiting timers are
\* cancelled; what is queued stays queued, and recv_msg_buffer as it is.
clean_up(s) == [s EXCEPT !.close = 1, !.started = FALSE, !.open = FALSE, !.dispatching = FALSE,
                         !.read = IF @ = "io" THEN "err" ELSE @,
                         !.write = IF @ = "io" THEN "queued" ELSE @,
                         !.timer = IF @ = "armed" THEN "none" ELSE @, !.redo = FALSE, !.linger = FALSE]

force_close(s) == IF s.close = 1 THEN s ELSE clean_up(s)

\* graceful_close: shut down one direction; without sync, set timer 10.
graceful_close(s, sync) ==
    IF s.close # 0 THEN s
    ELSE IF ~s.open THEN clean_up(s)
    ELSE [s EXCEPT !.close = 2, !.linger = ~sync]

\* do_recv_msg: a read on a closed socket fails at once.
do_recv_msg(s) == [s EXCEPT !.read = IF s.open THEN "io" ELSE "err"]

\* do_send_msg: not on a link that is closing.  A write stands for those of all
\* that is buffered, one after the other; one on a closed socket fails at once.
do_send_msg(s) == IF s.close = 0 /\ s.write = "none"
                  THEN [s EXCEPT !.write = IF s.open THEN "io" ELSE "queued"] ELSE s

\* do_dispatch_msg: one msg_handler at a time; on a closed link on_msg_handle,
\* which sends its message back, is called for all at once.
do_dispatch_msg(s) ==
    CASE s.dispatching -> s
      [] ~s.dispatching /\ ~s.open -> IF s.recv = 0 THEN s ELSE do_send_msg([s EXCEPT !.recv = 0])
      [] ~s.dispatching /\ s.open  -> IF s.recv = 0 THEN s
                                      ELSE [s EXCEPT !.dispatching = TRUE, !.posted = @ + 1, !.recv = @ - 1]

\* What dispatch_msg may do with a message: on_msg echoes it; or it goes to the
\* receive buffer; or it waits for timer 0, when the buffer is full or while
\* posting.
dispatch_msg(s) == {do_recv_msg(do_send_msg(s)),
                    do_recv_msg(do_dispatch_msg([s EXCEPT !.recv = @ + 1])),
                    [s EXCEPT !.timer = "armed"]}

\* Mutant of obsoleted: async_call_indicator is not looked at.
obsoleted_unaware(o) ==
    /\ sock[o].close = 0
    /\ ~sock[o].started
    /\ sock[o].recv = 0

\* Without ENHANCED_STABILITY nothing tells of a queued handler.
obsoleted(o) ==
    /\ sock[o].close = 0
    /\ ~sock[o].started
    /\ sock[o].recv = 0
    /\ ENHANCED_STABILITY => sock[o].read = "none" /\ sock[o].write = "none"

-----------------------------------------------------------------------------
(* The pool. *)

Unique(o)   == \A t \in Threads : obj[t] # o
Reusable(o) == Unique(o) /\ obsoleted(o)
Closed      == Range(temp_object_can)
Unused      == {o \in Objects : /\ o \notin object_can \cup Closed
                                /\ accept[o] = "none"
                                /\ Unique(o)}

\* reset(): what is queued for the object survives.
reset(s) == [NewSocket EXCEPT !.posted = s.posted, !.read = s.read, !.write = s.write,
                              !.timer = s.timer, !.redo = s.redo, !.linger = s.linger]

\* reuse_object: the first closed object that is idle.
Reused == LET idle == {i \in DOMAIN temp_object_can : Reusable(temp_object_can[i])} IN
          {i \in idle : \A j \in idle : i <= j}

\* create_object and async_accept of start_next_accept; "on" is the acceptor.
create_and_accept(on) ==
    \E o \in Objects :
        /\ \/ /\ \E i \in Reused : /\ o = temp_object_can[i]
                                   /\ temp_object_can' = RemoveAt(temp_object_can, i)
              /\ sock' = [sock EXCEPT ![o] = reset(@)]
              /\ late' = IF sock[o].posted > 0 THEN late \cup {o} ELSE late \ {o}
           \/ /\ Reused = {} /\ Unused # {}
              /\ o = CHOOSE p \in Unused : TRUE        \* addresses are alike
              /\ sock' = [sock EXCEPT ![o] = NewSocket]
              /\ late' = late \ {o}
              /\ UNCHANGED temp_object_can
        /\ accept' = [accept EXCEPT ![o] = IF on = "listening" THEN "io" ELSE "err"]
        /\ asked' = asked \ {o} /\ outrun' = outrun \ {o}

\* The bound on Objects: an object is left for every accept under way.
Spare == Cardinality(Unused) > Cardinality({o \in Objects : accept[o] = "ok"})
                                 + Cardinality({t \in IoThreads : at[t] \in {"start", "started", "next"}})

\* add_object has a limit.
Room == Cardinality(object_can) < MAX_OBJECT_NUM

\* del_object's first critical section.
erase(t, o) ==
    /\ obj' = [obj EXCEPT ![t] = o]
    /\ object_can' = object_can \ {o}

\* del_object's second critical section.
push_closed(t) ==
    /\ at[t] = "push"
    /\ temp_object_can' = Append(temp_object_can, obj[t])
    /\ at' = [at EXCEPT ![t] = "close"]
    /\ UNCHANGED <<pump, listener, object_can, sock, obj, ghost, used>>

\* The sequence s with only its positions in keep, in their order.
Kept(s, keep) ==
    {[k \in DOMAIN f |-> s[f[k]]] :
        f \in {g \in [1..Cardinality(keep) -> keep] : \A j, k \in DOMAIN g : j < k => g[j] < g[k]}}

\* free_object, called by the application: idle closed objects are deleted.
free_object ==
    /\ Spend("calls")
    /\ caller = "idle" /\ at[main] = "idle"
    /\ \E o \in Closed : Reusable(o)
    /\ temp_object_can' \in Kept(temp_object_can,
                                 {i \in DOMAIN temp_object_can : ~Reusable(temp_object_can[i])})
    /\ UNCHANGED <<pump, listener, object_can, sock, thread, ghost>>

\* clear_all_closed_object: between its two critical sections the objects are
\* in no container and nobody refers to them.
clear_all_closed_object ==
    /\ Spend("calls")
    /\ caller = "idle" /\ at[main] = "idle"
    /\ \E idle \in {{o \in object_can : Reusable(o)}} :
        /\ idle # {}
        /\ object_can' = object_can \ idle
        /\ \E list \in SetToSeqs(idle) : temp_object_can' = temp_object_can \o list
    /\ UNCHANGED <<pump, listener, sock, thread, ghost>>

-----------------------------------------------------------------------------
(* The server. *)

\* stop_listen: the outstanding accept is aborted.
stop_listen ==
    /\ acceptor' = "closed"
    /\ accept' = [o \in Objects |-> IF accept[o] = "io" THEN "err" ELSE accept[o]]

\* init(): open, bind and listen; a failure leaves the acceptor open.
init(ok) ==
    /\ \/ /\ ok /\ Spare
          /\ acceptor' = "listening"
          /\ create_and_accept("listening")
          /\ UNCHANGED used
       \/ /\ ~ok /\ Spend("fails")
          /\ acceptor' = "open"
          /\ UNCHANGED <<accept, temp_object_can, sock, asked, late, outrun>>
    /\ overlapped' = (overlapped \/ \E o \in Objects : accept[o] # "none")
    /\ UNCHANGED <<object_can, thread>>

\* Mutant of uninit_stop: the acceptor is left open.
uninit_keeps_listening ==
    /\ uninit_begins
    /\ UNCHANGED server

\* uninit(): stop_listen, then close_all_client under the shared lock.
uninit_stop ==
    /\ uninit_begins
    /\ stop_listen
    /\ UNCHANGED <<pool, sock, thread, ghost, used>>

close_all_client ==
    /\ uninit_ends
    /\ sock' = [o \in Objects |-> IF o \in object_can THEN force_close(sock[o]) ELSE sock[o]]
    /\ asked' = asked \cup object_can
    /\ UNCHANGED <<listener, pool, thread, overlapped, late, outrun, used>>

\* An io thread takes a handler while the pump runs.
Free(t) == at[t] = "idle" /\ ~stopped /\ Running

accept_handler(t, o) ==
    /\ Free(t) /\ accept[o] = "ok"
    /\ accept' = [accept EXCEPT ![o] = "none"]
    /\ obj' = [obj EXCEPT ![t] = o]
    /\ \/ /\ Room
          /\ object_can' = object_can \cup {o}
          /\ at' = [at EXCEPT ![t] = "start"]
          /\ UNCHANGED sock
       \/ /\ at' = [at EXCEPT ![t] = "next"]        \* refused: too many, or by on_accept
          /\ sock' = [sock EXCEPT ![o] = clean_up(@)]
          /\ UNCHANGED object_can
    /\ UNCHANGED <<pump, acceptor, temp_object_can, ghost, used>>

\* st_socket::start: do_start issues the first read, unless the io_service is
\* stopped.
start(t) ==
    /\ at[t] = "start"
    /\ IF sock[obj[t]].started \/ stopped
       THEN at' = [at EXCEPT ![t] = "next"] /\ UNCHANGED sock
       ELSE /\ at' = [at EXCEPT ![t] = "started"]
            /\ sock' = [sock EXCEPT ![obj[t]] = do_recv_msg(@)]
    /\ UNCHANGED <<pump, listener, pool, obj, ghost, used>>

\* started_ gets what do_start returned, after the read has been issued.
start_returns_true(t) ==
    /\ at[t] = "started"
    /\ sock' = [sock EXCEPT ![obj[t]].started = TRUE]
    /\ outrun' = IF sock[obj[t]].open THEN outrun ELSE outrun \cup {obj[t]}
    /\ at' = [at EXCEPT ![t] = "next"]
    /\ UNCHANGED <<pump, listener, pool, obj, asked, overlapped, late, used>>

\* Mutant of accept_again: no further accept.
accept_again_never(t) ==
    /\ at[t] = "next"
    /\ at' = [at EXCEPT ![t] = "idle"]
    /\ obj' = [obj EXCEPT ![t] = NoObject]
    /\ UNCHANGED <<pump, listener, pool, sock, ghost, used>>

accept_again(t) ==
    /\ at[t] = "next"
    /\ create_and_accept(acceptor)
    /\ at' = [at EXCEPT ![t] = "idle"]
    /\ obj' = [obj EXCEPT ![t] = NoObject]
    /\ UNCHANGED <<pump, acceptor, object_can, overlapped, used>>

\* accept_handler with an error: stop_listen, whatever the error was.
accept_error(t, o) ==
    /\ Free(t) /\ accept[o] = "err"
    /\ acceptor' = "closed"
    /\ accept' = [p \in Objects |-> IF p = o THEN "none"
                                    ELSE IF accept[p] = "io" THEN "err" ELSE accept[p]]
    /\ UNCHANGED <<pump, pool, sock, thread, ghost, used>>

\* recv_handler: dispatch_msg of what was parsed, if anything; when the rest
\* cannot be unpacked, on_unpack_error then closes, which cancels timer 0.
recv_handler(t, o) ==
    /\ Free(t) /\ sock[o].read = "ok"
    /\ \E r \in {[sock[o] EXCEPT !.read = "none"]} :
          \/ \E s \in dispatch_msg(r) : sock' = [sock EXCEPT ![o] = s]
          \/ \E s \in dispatch_msg(r) \cup {do_recv_msg(r)} : sock' = [sock EXCEPT ![o] = force_close(s)]
    /\ UNCHANGED <<pump, listener, pool, thread, ghost, used>>

\* on_msg_handle sends the message back, or it is put back and timer 3 set.
msg_handler(t, o) ==
    /\ Free(t) /\ sock[o].posted > 0
    /\ \E s \in {[sock[o] EXCEPT !.posted = @ - 1, !.dispatching = FALSE]} :
          \/ sock' = [sock EXCEPT ![o] = do_dispatch_msg(do_send_msg(s))] /\ UNCHANGED used
          \/ sock' = [sock EXCEPT ![o] = [s EXCEPT !.recv = @ + 1, !.redo = TRUE]] /\ Spend("refused")
    /\ UNCHANGED <<pump, listener, pool, thread, ghost>>

send_handler(t, o) ==
    /\ Free(t) /\ sock[o].write = "queued"
    /\ sock' = [sock EXCEPT ![o].write = "none"]
    /\ UNCHANGED <<pump, listener, pool, thread, ghost, used>>

\* on_timer(0): dispatch_msg again.  Timer 0 stands for all the rounds it takes
\* until the message does not have to wait any more.
on_timer_0(t, o) ==
    /\ Free(t) /\ sock[o].timer = "queued"
    /\ \E s \in dispatch_msg([sock[o] EXCEPT !.timer = "none"]) :
          s.timer = "none" /\ sock' = [sock EXCEPT ![o] = s]
    /\ UNCHANGED <<pump, listener, pool, thread, ghost, used>>

\* on_timer(3): what was refused is offered again.
on_timer_3(t, o) ==
    /\ Free(t) /\ sock[o].redo
    /\ sock' = [sock EXCEPT ![o] = do_dispatch_msg([@ EXCEPT !.redo = FALSE])]
    /\ UNCHANGED <<pump, listener, pool, thread, ghost, used>>

\* on_timer(10): the end of the countdown of graceful_close.
on_timer_10(t, o) ==
    /\ Free(t) /\ sock[o].linger
    /\ sock' = [sock EXCEPT ![o] = LET s == [@ EXCEPT !.linger = FALSE] IN
                                   IF s.close = 2 THEN force_close(s) ELSE s]
    /\ UNCHANGED <<pump, listener, pool, thread, ghost, used>>

\* Mutant of on_recv_error: del_client is not asked whether it found the object.
on_recv_error_pushes(t, o) ==
    /\ Free(t) /\ sock[o].read = "err"
    /\ erase(t, o)
    /\ sock' = [sock EXCEPT ![o].read = "ending"]
    /\ at' = [at EXCEPT ![t] = "push"]
    /\ UNCHANGED <<pump, listener, temp_object_can, ghost, used>>

\* recv_handler with an error: on_recv_error calls del_client.
on_recv_error(t, o) ==
    /\ Free(t) /\ sock[o].read = "err"
    /\ erase(t, o)
    /\ sock' = [sock EXCEPT ![o].read = "ending"]
    /\ at' = [at EXCEPT ![t] = IF o \in object_can THEN "push" ELSE "reset"]
    /\ UNCHANGED <<pump, listener, temp_object_can, ghost, used>>

\* del_client's force_close; only when del_object found the object.
del_client_closes(t) ==
    /\ t # main /\ at[t] = "close"
    /\ sock' = [sock EXCEPT ![obj[t]] = force_close(@)]
    /\ at' = [at EXCEPT ![t] = "reset"]
    /\ UNCHANGED <<pump, listener, pool, obj, ghost, used>>

\* Mutant of end_recv_error: close_state is not reset.
end_recv_error_closing(t) ==
    /\ at[t] = "reset"
    /\ sock' = [sock EXCEPT ![obj[t]].read = "none"]
    /\ at' = [at EXCEPT ![t] = "idle"]
    /\ obj' = [obj EXCEPT ![t] = NoObject]
    /\ UNCHANGED <<pump, listener, pool, ghost, used>>

\* on_recv_error resets close_state; the handler returns.
end_recv_error(t) ==
    /\ at[t] = "reset"
    /\ sock' = [sock EXCEPT ![obj[t]].close = 0, ![obj[t]].read = "none"]
    /\ at' = [at EXCEPT ![t] = "idle"]
    /\ obj' = [obj EXCEPT ![t] = NoObject]
    /\ UNCHANGED <<pump, listener, pool, ghost, used>>

\* st_server_base::force_close / graceful_close of a client by the application.
close_client(o) ==
    /\ Spend("calls")
    /\ caller = "idle" /\ at[main] = "idle" /\ o \in object_can
    /\ erase(main, o)
    /\ at' = [at EXCEPT ![main] = "push"]
    /\ asked' = asked \cup {o}
    /\ UNCHANGED <<pump, listener, temp_object_can, sock, overlapped, late, outrun>>

\* With sync, the caller waits until close_state is 0, or for too long.
client_closed ==
    /\ at[main] = "close"
    /\ \/ /\ \/ sock' = [sock EXCEPT ![obj[main]] = force_close(@)]
             \/ sock' = [sock EXCEPT ![obj[main]] = graceful_close(@, FALSE)]
          /\ at' = [at EXCEPT ![main] = "idle"]
          /\ obj' = [obj EXCEPT ![main] = NoObject]
       \/ /\ sock[obj[main]].close = 0 /\ sock[obj[main]].open
          /\ sock' = [sock EXCEPT ![obj[main]] = graceful_close(@, TRUE)]
          /\ at' = [at EXCEPT ![main] = "linger"]
          /\ UNCHANGED obj
    /\ UNCHANGED <<pump, listener, pool, ghost, used>>

\* The time-out does not look at close_state again.
linger_ends ==
    /\ at[main] = "linger"
    /\ \/ sock[obj[main]].close = 0 /\ UNCHANGED sock
       \/ sock' = [sock EXCEPT ![obj[main]] = clean_up(@)]
    /\ at' = [at EXCEPT ![main] = "idle"]
    /\ obj' = [obj EXCEPT ![main] = NoObject]
    /\ UNCHANGED <<pump, listener, pool, ghost, used>>

-----------------------------------------------------------------------------
(* Clients, the kernel and time. *)

connect(o) ==
    /\ accept[o] = "io" /\ Spare /\ Spend("clients")
    /\ accept' = [accept EXCEPT ![o] = "ok"]
    /\ sock' = [sock EXCEPT ![o].open = TRUE]
    /\ UNCHANGED <<pump, acceptor, pool, thread, ghost>>

accept_fails(o) ==
    /\ accept[o] = "io" /\ Spend("fails")
    /\ accept' = [accept EXCEPT ![o] = "err"]
    /\ UNCHANGED <<pump, acceptor, pool, sock, thread, ghost>>

read_completes(o) ==
    /\ sock[o].read = "io"
    /\ \/ Spend("msgs") /\ sock' = [sock EXCEPT ![o].read = "ok"]
       \/ UNCHANGED used /\ sock' = [sock EXCEPT ![o].read = "err"]
    /\ UNCHANGED <<pump, listener, pool, thread, ghost>>

write_completes(o) ==
    /\ sock[o].write = "io"
    /\ sock' = [sock EXCEPT ![o].write = "queued"]
    /\ UNCHANGED <<pump, listener, pool, thread, ghost, used>>

timer_expires(o) ==
    /\ sock[o].timer = "armed"
    /\ sock' = [sock EXCEPT ![o].timer = "queued"]
    /\ UNCHANGED <<pump, listener, pool, thread, ghost, used>>

\* What keeps io_service::run busy.
Work == \/ \E o \in Objects : \/ accept[o] # "none"
                              \/ sock[o].read # "none" \/ sock[o].write # "none"
                              \/ sock[o].posted > 0
                              \/ sock[o].timer # "none" \/ sock[o].redo \/ sock[o].linger
        \/ \E t \in IoThreads : at[t] # "idle"

pump_step ==
    \/ \E r \in Runners : RunnerStep(r)
    \/ \E r \in Runners : run_returns(r, Work) /\ \A t \in IoThreads : at[t] = "idle"
    \/ start_returns \/ skip_uninit \/ stop_returns \/ force_stop

pump_call ==
    /\ at[main] = "idle" /\ Spend("calls")
    /\ \/ \E r \in Runners : start_service(r)
       \/ \E then \in {"waiting", "forcing"} : stop_service(then)
       \/ \E unlist \in BOOLEAN : stop_one(unlist)
       \/ start_gives_up
    /\ UNCHANGED <<listener, pool, sock, thread, ghost>>

Handler(t) ==
    \/ start(t) \/ start_returns_true(t) \/ accept_again(t) \/ push_closed(t) \/ del_client_closes(t) \/ end_recv_error(t)
    \/ \E o \in Objects : \/ accept_handler(t, o) \/ accept_error(t, o) \/ recv_handler(t, o)
                          \/ msg_handler(t, o) \/ send_handler(t, o) \/ on_timer_0(t, o) \/ on_timer_3(t, o)
                          \/ on_timer_10(t, o) \/ on_recv_error(t, o)

Next ==
    \/ pump_step /\ UNCHANGED server
    \/ pump_call
    \/ \E ok \in BOOLEAN : /\ \/ \E r \in Runners : init_service(r, ok)
                              \/ at[main] = "idle" /\ start_one(ok)
                           /\ init(ok)
    \/ uninit_stop
    \/ close_all_client
    \/ \E t \in IoThreads : Handler(t)
    \/ push_closed(main)
    \/ client_closed \/ linger_ends
    \/ free_object
    \/ clear_all_closed_object
    \/ \E o \in Objects : \/ close_client(o) \/ connect(o) \/ accept_fails(o)
                          \/ read_completes(o) \/ write_completes(o) \/ timer_expires(o)

Spec == Init /\ [][Next]_vars

-----------------------------------------------------------------------------
Holders(o) == {t \in Threads : at[t] = "push" /\ obj[t] = o}

(***************************************************************************)
(* An object is in one place: clients in object_can, closed ones once in   *)
(* temp_object_can, or under an accept.  del_object pushes only what it    *)
(* erased: "this can avoid duplicated items in temp_object_can".           *)
(***************************************************************************)
OneHome ==
    \A o \in Objects :
        Cardinality({i \in DOMAIN temp_object_can : temp_object_can[i] = o})
        + Cardinality(Holders(o))
        + (IF o \in object_can THEN 1 ELSE 0)
        + (IF accept[o] # "none" THEN 1 ELSE 0) <= 1

(***************************************************************************)
(* A socket that is handed to async_accept is closed and idle, although it *)
(* may have been another client's a moment ago: no read of the former link *)
(* is left whose handler would take the new client's bytes or close its    *)
(* link, and no write that would clear its "sending".  The exception is an *)
(* object reused while a msg_handler was queued (NothingQueuedAtReuse):    *)
(* that one sends its message whenever it runs, even into the new link.    *)
(***************************************************************************)
AcceptIntoIdle ==
    \A o \in Objects : accept[o] # "none" =>
        /\ sock[o].close = 0 /\ ~sock[o].started
        /\ sock[o].read = "none"
        /\ o \notin late => sock[o].write = "none"
        /\ sock[o].open => accept[o] = "ok"

(***************************************************************************)
(* A link that its client ended is reclaimed: once its handlers have run,  *)
(* the object in temp_object_can can be reused or freed.  There are two    *)
(* exceptions: a link that ended while a refused message waited for timer  *)
(* 3, which the close cancels, so that nobody empties recv_msg_buffer any  *)
(* more; and one that was cleaned up by another io thread before start()   *)
(* set started_, which then stays set (outrun).                            *)
(***************************************************************************)
Stranded(o) == sock[o].recv > 0 /\ sock[o].posted = 0 /\ ~sock[o].redo

PeerCloseIsReclaimed ==
    \A o \in Closed \ (asked \cup outrun) :
        /\ Unique(o) /\ sock[o].read = "none" /\ sock[o].write = "none" /\ sock[o].posted = 0
        /\ sock[o].timer = "none" /\ ~sock[o].redo
        => obsoleted(o) \/ Stranded(o)

Accepting == \/ \E o \in Objects : accept[o] \in {"io", "ok"}
             \/ \E t \in IoThreads : at[t] \in {"start", "started", "next"}

(***************************************************************************)
(* The server goes on accepting while it is in service, whatever clients   *)
(* and the application do, unless an accept failed or init() ran while     *)
(* the accept_handler of an earlier run was still queued.                  *)
(***************************************************************************)
AcceptingGoesOn ==
    serving /\ Running /\ caller # "uninit" /\ used.fails = 0 /\ ~overlapped =>
        acceptor = "listening" /\ Accepting

(***************************************************************************)
(* Fairness: an io thread finishes its handler and takes the next one, the *)
(* service thread and the caller of the pump go on, timers expire.  Peers  *)
(* owe nothing, and the application only that it does not refuse or keep   *)
(* back messages for ever (MaxRefused).                                    *)
(***************************************************************************)
PumpStepsOn == (pump_step /\ UNCHANGED server) \/ uninit_stop \/ close_all_client
               \/ \E ok \in BOOLEAN, r \in Runners : init_service(r, ok) /\ init(ok)
Fairness ==
    /\ \A t \in IoThreads : WF_vars(Handler(t))
    /\ WF_vars(PumpStepsOn)
    /\ WF_vars(\E o \in Objects : timer_expires(o))
FairSpec == Spec /\ Fairness

\* Links that close_all_client did not reach: a client whose accept_handler
\* ran after it, and one that graceful_close took out of object_can and whose
\* end then closed nothing.
UnclosedLink == \E o \in Objects : sock[o].open /\ sock[o].close = 0 /\ o \notin asked \cap object_can

(***************************************************************************)
(* stop_service returns: every handler that keeps run() busy comes to an   *)
(* end, unless a link is left that close_all_client did not reach, or      *)
(* start_service had given up and let a second service thread run.         *)
(* force_stop_service returns even then: "only used when stop_service()    *)
(* can not stop the service".                                              *)
(***************************************************************************)
StopReturns ==
    slow = 0 /\ caller \in {"waiting", "forcing"} ~>
        caller = "idle" \/ (caller = "waiting" /\ UnclosedLink)

-----------------------------------------------------------------------------
(* What comments of the code say and the code does not do; each has a
   configuration of its own, in which TLC finds the counterexample. *)

(***************************************************************************)
(* object_pool.h: "some other asynchronous calls are still queued in       *)
(* boost::asio::io_service ... we must guarantee these objects not be      *)
(* freed".  ENHANCED_STABILITY counts reads and writes; a msg_handler or   *)
(* an expired timer is still queued when the object is reused.             *)
(***************************************************************************)
NothingQueuedAtReuse ==
    \A o \in Objects : accept[o] # "none" => sock[o].posted = 0 /\ sock[o].timer = "none"

(***************************************************************************)
(* server_socket.h: "do not forget to force_close this socket(in           *)
(* del_client(), there's a force_close() invocation)".  After              *)
(* st_server_base::graceful_close del_client does not find the object and  *)
(* closes nothing: it stays started, and is never reused or freed.  Nor is *)
(* one that force_close finds waiting for timer 0, with no read to fail    *)
(* (close_state stays 1), nor one whose recv_msg_buffer is not emptied.    *)
(***************************************************************************)
ClosedIsReclaimed ==
    \A o \in Closed :
        /\ Unique(o) /\ ~sock[o].linger
        /\ sock[o].read = "none" /\ sock[o].write = "none" /\ sock[o].posted = 0
        /\ sock[o].timer = "none" /\ ~sock[o].redo
        => obsoleted(o)
=============================================================================
