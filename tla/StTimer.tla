------------------------------ MODULE StTimer ------------------------------
(***************************************************************************)
(* st_timer (st_asio_wrapper_timer.h): the timers of one object, as        *)
(* functions of timer_can.  A timer_info has its status, its user_data, at *)
(* most one wait that runs, and the handlers of expired waits that have    *)
(* been queued.  Cancelling a wait leaves its handler nothing to do, but   *)
(* it cannot take back a handler that is queued.                           *)
(***************************************************************************)
EXTENDS Naturals

TimerInfos(data) == [status : {"ok", "canceled"}, user_data : data,
                     waiting : BOOLEAN, queued : Nat]

NoTimer(data) == [status |-> "canceled", user_data |-> data, waiting |-> FALSE, queued |-> 0]

\* A running wait is replaced: expires_from_now cancels it.
start_timer(timer_can, id) == [timer_can EXCEPT ![id].waiting = TRUE]

update_timer_info(timer_can, id, data) ==
    [timer_can EXCEPT ![id].status = "ok", ![id].user_data = data]

set_timer(timer_can, id, data) == start_timer(update_timer_info(timer_can, id, data), id)

stop_timer(timer_can, id) == [timer_can EXCEPT ![id].status = "canceled", ![id].waiting = FALSE]

stop_all_timer(timer_can) == [id \in DOMAIN timer_can |-> stop_timer(timer_can, id)[id]]

\* The deadline passes; timer_handler begins.
Expired(timer_can, id) == [timer_can EXCEPT ![id].waiting = FALSE, ![id].queued = @ + 1]
Taken(timer_can, id)   == [timer_can EXCEPT ![id].queued = @ - 1]

Busy(timer_can, id) == timer_can[id].waiting \/ timer_can[id].queued > 0
=============================================================================
