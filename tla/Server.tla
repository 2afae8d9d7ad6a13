------------------------------- MODULE Server -------------------------------
(***************************************************************************)
(* main(): start-up, serving and shutdown.  Two event loops share the      *)
(* services: the main thread's, where the bus dispatches and shutdown      *)
(* runs, and the one uvicorn runs in a worker thread, where requests       *)
(* publish and populate tasks live.  Nothing wakes a loop that sleeps in   *)
(* its selector except a signal, a timer of its own or the end of the      *)
(* server thread; what the other loop puts into a queue does not.          *)
(***************************************************************************)
EXTENDS Integers

CONSTANTS
    PopulateJobs,
    Capacity        \* event_bus.max_queue_size

ASSUME ServerAssumption == Capacity \in Nat \ {0}

VARIABLES
    main,           \* how far main() is
    server,         \* the thread that runs ui.run
    bus,            \* "off", "running" or "stopped"
    backlog,        \* messages in the analytics queue
    awake,          \* is the main loop out of its selector?
    jobs,           \* populate tasks on the server's loop
    http,           \* MoexClient
    engine,         \* AsyncEngine
    gaveUp          \* did main() leave the server thread behind?

serverVars == <<main, server, bus, backlog, awake, jobs, http, engine, gaveUp>>

ServerInit ==
    /\ main = "starting" /\ server = "off" /\ bus = "off"
    /\ backlog = 0 /\ awake = TRUE /\ jobs = {}
    /\ http = "open" /\ engine = "open" /\ gaveUp = FALSE

-----------------------------------------------------------------------------
(* Start-up: engine and client exist, migrations run, the bus starts, the  *)
(* services are wired and the server thread begins.                        *)
Start ==
    /\ main = "starting"
    /\ main' = "serving" /\ server' = "running" /\ bus' = "running"
    /\ UNCHANGED <<backlog, awake, jobs, http, engine, gaveUp>>

(* Migrations, the wiring or Ctrl+C end it early; both finally blocks run  *)
(* as far as they were entered.                                            *)
StartFails ==
    /\ main = "starting"
    /\ \/ main' = "settling" /\ UNCHANGED bus
       \/ main' = "stopping bus" /\ bus' = "running"
    /\ UNCHANGED <<server, backlog, awake, jobs, http, engine, gaveUp>>

-----------------------------------------------------------------------------
(* The server's loop, until its asyncio.run ends.                          *)

ServerAlive == server \in {"running", "stopping"}

(* A full queue is no place to wait in for a task of another loop: put()   *)
(* raises RuntimeError, and the request fails without a step.              *)
PublishFromRequest ==
    /\ ServerAlive /\ bus = "running" /\ backlog < Capacity
    /\ backlog' = backlog + 1
    /\ UNCHANGED <<main, server, bus, awake, jobs, http, engine, gaveUp>>

SchedulePopulate(j) ==
    /\ ServerAlive /\ j \notin jobs
    /\ jobs' = jobs \union {j}
    /\ UNCHANGED <<main, server, bus, backlog, awake, http, engine, gaveUp>>

PopulateEnds(j) ==
    /\ ServerAlive /\ j \in jobs
    /\ jobs' = jobs \ {j}
    /\ UNCHANGED <<main, server, bus, backlog, awake, http, engine, gaveUp>>

(* asyncio.run cancels and awaits what is left on its loop; the end of the *)
(* thread wakes the main loop.  The server may also fail by itself.        *)
ServerEnds ==
    /\ ServerAlive
    /\ server' = "ended" /\ jobs' = {} /\ awake' = TRUE
    /\ UNCHANGED <<main, bus, backlog, http, engine, gaveUp>>

-----------------------------------------------------------------------------
(* The main loop. *)

DispatchOnMain ==
    /\ awake /\ bus = "running" /\ backlog > 0
    /\ backlog' = backlog - 1
    /\ UNCHANGED <<main, server, bus, awake, jobs, http, engine, gaveUp>>

Sleep ==
    /\ awake /\ backlog = 0 /\ main \in {"serving", "awaiting server"} /\ ServerAlive
    /\ awake' = FALSE
    /\ UNCHANGED <<main, server, bus, backlog, jobs, http, engine, gaveUp>>

(* SIGINT or SIGTERM: the handler runs on the main loop. *)
Signal ==
    /\ main = "serving" /\ server = "running"
    /\ main' = "awaiting server" /\ server' = "stopping" /\ awake' = TRUE
    /\ UNCHANGED <<bus, backlog, jobs, http, engine, gaveUp>>

(* Fault: shutdown does not wait for the server thread. *)
ServerAwaitedNot == TRUE

ServerAwaited == server = "ended"

ServerSeen ==
    /\ main \in {"serving", "awaiting server"} /\ ServerAwaited
    /\ main' = "stopping bus"
    /\ UNCHANGED <<server, bus, backlog, awake, jobs, http, engine, gaveUp>>

(* Fault: the wait for the server thread has no timeout. *)
GiveUpNever == FALSE /\ UNCHANGED serverVars

(* _SERVER_SHUTDOWN_TIMEOUT_S: a timer of the main loop. *)
GiveUp ==
    /\ main = "awaiting server" /\ server = "stopping"
    /\ main' = "stopping bus" /\ gaveUp' = TRUE /\ awake' = TRUE
    /\ UNCHANGED <<server, bus, backlog, jobs, http, engine>>

StopBus ==
    /\ main = "stopping bus"
    /\ main' = "settling" /\ bus' = "stopped" /\ backlog' = 0
    /\ UNCHANGED <<server, awake, jobs, http, engine, gaveUp>>

(* shutdown() of the reference service.  Tasks that are left belong to the *)
(* server's loop: gather() over them cannot be awaited here, RuntimeError  *)
(* leaves main(), and the client and the engine stay open.                 *)
Settle ==
    /\ main = "settling"
    /\ main' = IF jobs = {} THEN "closing" ELSE "ended"
    /\ UNCHANGED <<server, bus, backlog, awake, jobs, http, engine, gaveUp>>

CloseClient ==
    /\ main = "closing" /\ http = "open"
    /\ http' = "closed"
    /\ UNCHANGED <<main, server, bus, backlog, awake, jobs, engine, gaveUp>>

DisposeEngine ==
    /\ main = "closing" /\ http = "closed"
    /\ engine' = "disposed" /\ main' = "ended"
    /\ UNCHANGED <<server, bus, backlog, awake, jobs, http, gaveUp>>

MainStep == ServerSeen \/ GiveUp \/ StopBus \/ Settle \/ CloseClient \/ DisposeEngine

ServerNext ==
    \/ Start \/ StartFails \/ Signal \/ MainStep
    \/ PublishFromRequest \/ ServerEnds \/ DispatchOnMain \/ Sleep
    \/ \E j \in PopulateJobs : SchedulePopulate(j) \/ PopulateEnds(j)

(* A loop that is awake runs what is ready, and its timers expire.  Nobody *)
(* need send a signal, and the server need not stop when asked to.         *)
ServerFairness == WF_serverVars(MainStep) /\ WF_serverVars(DispatchOnMain)

ServerSpec == ServerInit /\ [][ServerNext]_serverVars /\ ServerFairness

-----------------------------------------------------------------------------
(* A shutdown that did not leave the server behind is orderly: when the    *)
(* client is closed nobody publishes, runs a populate task or waits in a   *)
(* queue, and main() does not end before client and engine are closed.     *)
OrderlyShutdown ==
    ~gaveUp =>
        /\ http = "closed" => jobs = {} /\ ~ServerAlive /\ bus # "running" /\ backlog = 0
        /\ main = "ended" => http = "closed" /\ engine = "disposed"

(* After a signal main() ends, whether or not the server thread does.      *)
ShutdownEnds == main = "awaiting server" ~> main = "ended"

(* What attach_to_event_bus says, that every published change is           *)
(* recalculated: a message in the queue gets the loop that handles it to   *)
(* run.                                                                    *)
EventsHandled == backlog > 0 ~> awake \/ backlog = 0
=============================================================================
