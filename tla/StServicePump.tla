--------------------------- MODULE StServicePump ---------------------------
(***************************************************************************)
(* st_service_pump (st_asio_wrapper_service_pump.h): one service of a      *)
(* pump, the thread that runs the pump, and the application thread that    *)
(* starts and stops it.  The module constrains the pump's variables only;  *)
(* a service joins these actions to its own init() and uninit()            *)
(* (StServer).                                                             *)
(***************************************************************************)
EXTENDS Naturals

CONSTANTS
    Runners,      \* threads that start_service creates (bounds the starts)
    MaxSlow       \* how often start_service gives up waiting (a bound)

ASSUME PumpAssumption == MaxSlow \in Nat

VARIABLES
    started,      \* st_service_pump::started
    stopped,      \* io_service::stopped()
    serving,      \* i_service::started
    listed,       \* the service is in service_can
    runner,       \* runner[r]: where service_thread r is in run_service
    caller,       \* where the application thread is in the pump's calls
    after,        \* where it goes when the service is stopped
    slow          \* how often start_service returned before the pump started

pump == <<started, stopped, serving, listed, runner, caller, after, slow>>

RunnerPhases == {"none", "spawned", "services", "init", "do_service", "running", "end"}
CallerPhases == {"idle", "starting", "stopping", "uninit", "waiting", "forcing"}

PumpTypeOK ==
    /\ {started, stopped, serving, listed} \subseteq BOOLEAN
    /\ runner \in [Runners -> RunnerPhases]
    /\ caller \in CallerPhases /\ after \in CallerPhases
    /\ slow \in 0..MaxSlow

PumpInit ==
    /\ started = FALSE /\ stopped = FALSE /\ serving = FALSE /\ listed = TRUE
    /\ runner = [r \in Runners |-> "none"]
    /\ caller = "idle" /\ after = "idle"
    /\ slow = 0

Running   == \E r \in Runners : runner[r] = "running"
Active(r) == runner[r] \notin {"none", "end"}

-----------------------------------------------------------------------------
(* The application thread. *)

\* start_service(): create a thread and poll for at most half a second.
start_service(r) ==
    /\ caller = "idle" /\ ~started /\ runner[r] = "none"
    /\ runner' = [runner EXCEPT ![r] = "spawned"]
    /\ caller' = "starting"
    /\ UNCHANGED <<started, stopped, serving, listed, after, slow>>

start_returns ==
    /\ caller = "starting" /\ started
    /\ caller' = "idle"
    /\ UNCHANGED <<started, stopped, serving, listed, runner, after, slow>>

start_gives_up ==
    /\ caller = "starting" /\ ~started
    /\ slow < MaxSlow /\ slow' = slow + 1
    /\ caller' = "idle"
    /\ UNCHANGED <<started, stopped, serving, listed, runner, after>>

\* start_service(service) on a pump that is started: init() in this thread.
start_one(ok) ==
    /\ caller = "idle" /\ started /\ ~serving
    /\ serving' = ok
    /\ stopped' = (stopped \/ ~ok)
    /\ UNCHANGED <<started, listed, runner, caller, after, slow>>

\* stop_service() = end_service() (then = "waiting"), force_stop_service()
\* (then = "forcing"): nothing at all when the pump has not started yet.
stop_service(then) ==
    /\ caller = "idle" /\ started
    /\ caller' = "stopping" /\ after' = then
    /\ UNCHANGED <<started, stopped, serving, listed, runner, slow>>

\* stop_service(service); remove(service) and clear() also unlist it.
stop_one(unlist) ==
    /\ caller = "idle" /\ listed
    /\ listed' = ~unlist
    /\ caller' = "stopping" /\ after' = "idle"
    /\ UNCHANGED <<started, stopped, serving, runner, slow>>

\* i_service::stop_service: uninit() only when init() succeeded.
skip_uninit ==
    /\ caller = "stopping" /\ ~serving
    /\ caller' = after /\ after' = "idle"
    /\ UNCHANGED <<started, stopped, serving, listed, runner, slow>>

uninit_begins ==
    /\ caller = "stopping" /\ serving
    /\ caller' = "uninit"
    /\ UNCHANGED <<started, stopped, serving, listed, runner, after, slow>>

uninit_ends ==
    /\ caller = "uninit"
    /\ serving' = FALSE
    /\ caller' = after /\ after' = "idle"
    /\ UNCHANGED <<started, stopped, listed, runner, slow>>

\* The wait loops of end_service and force_stop_service.
stop_returns ==
    /\ caller \in {"waiting", "forcing"} /\ ~started
    /\ caller' = "idle"
    /\ UNCHANGED <<started, stopped, serving, listed, runner, after, slow>>

force_stop ==
    /\ caller = "forcing" /\ started /\ ~stopped
    /\ stopped' = TRUE
    /\ UNCHANGED <<started, serving, listed, runner, caller, after, slow>>

-----------------------------------------------------------------------------
(* The service thread. *)

run_service(r) ==
    /\ runner[r] = "spawned"
    /\ runner' = [runner EXCEPT ![r] = IF started THEN "end" ELSE "services"]
    /\ stopped' = (stopped /\ started)
    /\ UNCHANGED <<started, serving, listed, caller, after, slow>>

\* i_service::start_service: the test of started, then init().
check_service(r) ==
    /\ runner[r] = "services"
    /\ runner' = [runner EXCEPT ![r] = IF listed /\ ~serving THEN "init" ELSE "do_service"]
    /\ UNCHANGED <<started, stopped, serving, listed, caller, after, slow>>

\* A failed init() stops the pump.
init_service(r, ok) ==
    /\ runner[r] = "init"
    /\ runner' = [runner EXCEPT ![r] = "do_service"]
    /\ serving' = ok
    /\ stopped' = (stopped \/ ~ok)
    /\ UNCHANGED <<started, listed, caller, after, slow>>

do_service(r) ==
    /\ runner[r] = "do_service"
    /\ runner' = [runner EXCEPT ![r] = "running"]
    /\ started' = TRUE
    /\ UNCHANGED <<stopped, serving, listed, caller, after, slow>>

\* Mutant of run_returns: the io threads are not joined, started is kept.
run_returns_started(r, work) ==
    /\ runner[r] = "running" /\ (stopped \/ ~work)
    /\ runner' = [runner EXCEPT ![r] = "end"]
    /\ stopped' = TRUE
    /\ UNCHANGED <<started, serving, listed, caller, after, slow>>

\* run() returns when the io_service is stopped or has no work left, which
\* stops it; the other io threads are joined.
run_returns(r, work) ==
    /\ runner[r] = "running" /\ (stopped \/ ~work)
    /\ runner' = [runner EXCEPT ![r] = "end"]
    /\ stopped' = TRUE
    /\ started' = FALSE
    /\ UNCHANGED <<serving, listed, caller, after, slow>>

RunnerStep(r) == run_service(r) \/ check_service(r) \/ do_service(r)

-----------------------------------------------------------------------------
(***************************************************************************)
(* As long as start_service never gave up waiting, "started" means that a  *)
(* service thread is inside do_service, and one thread at most runs the    *)
(* pump: two would initialise the service twice, and the first to end      *)
(* would declare the pump stopped under the other.  After start_service    *)
(* gave up that can happen, and the property says nothing.                 *)
(***************************************************************************)
OneRunner ==
    slow = 0 =>
        /\ started <=> Running
        /\ \A r, q \in Runners : Active(r) /\ Active(q) => r = q
=============================================================================
