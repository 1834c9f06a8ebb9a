------------------------------- MODULE Daemon -------------------------------
(***************************************************************************)
(* The life of the process: the main thread, which waits for a signal and  *)
(* calls Daemon::stop(), the thread in Daemon::run(), which starts the     *)
(* parts and stops them, the thread of the HTTP server and the one of the  *)
(* projection.  What the parts do while they run is in Proxy and           *)
(* EventProjection; SpatialService is a flag.                              *)
(*                                                                         *)
(* Both threads may call the stop function of the HTTP server, which is a  *)
(* local variable of run(): a call after run() has returned ends the       *)
(* behaviour.                                                              *)
(***************************************************************************)
VARIABLES
  signalled,     \* g_signal_received
  finished,      \* daemon_finished
  mainAt,        \* where the main thread is
  mainHas,       \* it holds a copy of stop_http_server_fn_
  runAt,         \* where run() is
  runHas,        \* run() holds a copy of stop_http_server_fn_
  exitCode,      \* what run() returns
  stopRequested, \* stop_requested_
  registered,    \* stop_http_server_fn_ is set
  http,          \* the thread of the HTTP server
  socket,        \* the socket it listens on
  gateway,       \* VDA5050Proxy::running_
  spatial,       \* SpatialService::running_
  projection,    \* the projection thread
  fate           \* "none", or "stale" after a call into the destroyed server

server == <<http, socket>>
parts  == <<gateway, spatial, projection>>
main   == <<signalled, mainAt, mainHas>>
run    == <<finished, runAt, runHas, exitCode>>
stop   == <<stopRequested, registered>>
vars   == <<main, run, stop, server, parts, fate>>

Returned == {"returned", "finished"}

\* One step of run(), from one place to another.
Run(from, to) ==
  /\ runAt = from
  /\ runAt' = to
  /\ UNCHANGED <<main, finished, stopRequested, fate>>

-----------------------------------------------------------------------------
(* Daemon::run, start.                                                     *)

\* Mutant: the failure is logged and not reported.
StartFailsQuietly ==
  /\ Run("migrating", "returned") \/ Run("startingGateway", "returned")
  /\ UNCHANGED <<runHas, exitCode, registered, server, parts>>

StartFails ==
  /\ Run("migrating", "returned") \/ Run("startingGateway", "returned")
  /\ exitCode' = 1
  /\ UNCHANGED <<runHas, registered, server, parts>>

Migrate ==
  /\ Run("migrating", "startingGateway")
  /\ UNCHANGED <<runHas, exitCode, registered, server, parts>>

StartGateway ==
  /\ Run("startingGateway", "bindingRoutes")
  /\ gateway' = TRUE
  /\ UNCHANGED <<runHas, exitCode, registered, server, spatial, projection>>

BindRoutes ==
  /\ Run("bindingRoutes", "startingProjection")
  /\ spatial' = TRUE
  /\ UNCHANGED <<runHas, exitCode, registered, server, gateway, projection>>

StartProjection ==
  /\ Run("startingProjection", "bindingPort")
  /\ projection' = "on"
  /\ UNCHANGED <<runHas, exitCode, registered, server, gateway, spatial>>

\* The daemon goes on without HTTP.
BindFails ==
  /\ Run("bindingPort", "waiting")
  /\ UNCHANGED <<runHas, exitCode, registered, server, parts>>

BindPort ==
  /\ Run("bindingPort", "registering")
  /\ socket' = "bound"
  /\ UNCHANGED <<runHas, exitCode, registered, http, parts>>

RegisterStop ==
  /\ Run("registering", "startingHttp")
  /\ registered' = TRUE
  /\ UNCHANGED <<runHas, exitCode, server, parts>>

\* The thread is started unless a stop has been requested by now.
StartHttp ==
  /\ Run("startingHttp", "waiting")
  /\ http' = IF stopRequested THEN http ELSE "started"
  /\ UNCHANGED <<runHas, exitCode, registered, socket, parts>>

-----------------------------------------------------------------------------
(* Daemon::run, stop.                                                      *)

\* The other way out of the wait, a gateway that is not running, needs somebody
\* else to call its stop().
LeaveWait ==
  /\ stopRequested
  /\ Run("waiting", "copying")
  /\ UNCHANGED <<runHas, exitCode, registered, server, parts>>

CopyStop ==
  /\ Run("copying", "calling")
  /\ runHas' = registered
  /\ UNCHANGED <<exitCode, registered, server, parts>>

\* httplib::Server::stop closes the socket of a server that listens, and does
\* nothing to one that does not listen yet.
StopServer ==
  /\ socket' = IF http = "listening" THEN "closed" ELSE socket
  /\ UNCHANGED http

CallStop ==
  /\ Run("calling", "joiningHttp")
  /\ IF runHas THEN StopServer ELSE UNCHANGED server
  /\ UNCHANGED <<runHas, exitCode, registered, parts>>

\* Mutant: the thread of the HTTP server is not joined.
DetachHttp ==
  /\ Run("joiningHttp", "clearing")
  /\ UNCHANGED <<runHas, exitCode, registered, server, parts>>

JoinHttp ==
  /\ http \in {"none", "ended"}
  /\ Run("joiningHttp", "clearing")
  /\ UNCHANGED <<runHas, exitCode, registered, server, parts>>

\* Mutant: stop_http_server_fn_ is left as it is.
KeepStop ==
  /\ Run("clearing", "stoppingProjection")
  /\ UNCHANGED <<runHas, exitCode, registered, server, parts>>

ClearStop ==
  /\ Run("clearing", "stoppingProjection")
  /\ registered' = FALSE
  /\ UNCHANGED <<runHas, exitCode, server, parts>>

\* Mutant: the join without the flag.
KeepProjecting ==
  /\ Run("stoppingProjection", "joiningProjection")
  /\ UNCHANGED <<runHas, exitCode, registered, server, parts>>

\* ProjectionEngine::stop(): the flag, then the join.
StopProjection ==
  /\ Run("stoppingProjection", "joiningProjection")
  /\ projection' = "stopping"
  /\ UNCHANGED <<runHas, exitCode, registered, server, gateway, spatial>>

JoinProjection ==
  /\ projection = "off"
  /\ Run("joiningProjection", "stoppingSpatial")
  /\ UNCHANGED <<runHas, exitCode, registered, server, parts>>

StopSpatial ==
  /\ Run("stoppingSpatial", "stoppingGateway")
  /\ spatial' = FALSE
  /\ UNCHANGED <<runHas, exitCode, registered, server, gateway, projection>>

StopGateway ==
  /\ Run("stoppingGateway", "returned")
  /\ gateway' = FALSE
  /\ UNCHANGED <<runHas, exitCode, registered, server, spatial, projection>>

\* The thread function notes the result after run() has returned.
Finish ==
  /\ runAt = "returned"
  /\ runAt' = "finished"
  /\ finished' = TRUE
  /\ UNCHANGED <<main, runHas, exitCode, stop, server, parts, fate>>

-----------------------------------------------------------------------------
(* The other threads of the daemon.                                        *)

\* listen_after_bind: from now on stop() has something to close.
Listen ==
  /\ http = "started"
  /\ http' = "listening"
  /\ UNCHANGED <<main, run, stop, socket, parts, fate>>

HttpEnds ==
  /\ http = "listening"
  /\ socket = "closed"
  /\ http' = "ended"
  /\ UNCHANGED <<main, run, stop, socket, parts, fate>>

\* It finds running_ false at the end of its cycle or of its sleep.
ProjectionEnds ==
  /\ projection = "stopping"
  /\ projection' = "off"
  /\ UNCHANGED <<main, run, stop, server, gateway, spatial, fate>>

-----------------------------------------------------------------------------
(* The main thread.                                                        *)

Main(from, to) ==
  /\ mainAt = from
  /\ mainAt' = to
  /\ UNCHANGED <<signalled, run>>

Signal ==
  /\ ~signalled
  /\ signalled' = TRUE
  /\ UNCHANGED <<mainAt, mainHas, run, stop, server, parts, fate>>

\* Mutant: the main thread waits for a signal only.
WakeUpOnSignal ==
  /\ signalled
  /\ Main("waiting", "checking")
  /\ UNCHANGED <<mainHas, stop, server, parts, fate>>

WakeUp ==
  /\ signalled \/ finished
  /\ Main("waiting", "checking")
  /\ UNCHANGED <<mainHas, stop, server, parts, fate>>

\* A daemon that has finished is not stopped.
CheckFinished ==
  /\ Main("checking", IF finished THEN "joining" ELSE "requesting")
  /\ UNCHANGED <<mainHas, stop, server, parts, fate>>

RequestStop ==
  /\ Main("requesting", "copying")
  /\ stopRequested' = TRUE
  /\ UNCHANGED <<mainHas, registered, server, parts, fate>>

MainCopiesStop ==
  /\ Main("copying", "calling")
  /\ mainHas' = registered
  /\ UNCHANGED <<stop, server, parts, fate>>

MainCallsStop ==
  /\ Main("calling", "joining")
  /\ UNCHANGED <<mainHas, stop, parts>>
  /\ \/ ~mainHas /\ UNCHANGED <<server, fate>>
     \/ mainHas /\ runAt \notin Returned /\ StopServer /\ UNCHANGED fate
     \/ mainHas /\ runAt \in Returned /\ fate' = "stale" /\ UNCHANGED server

Join ==
  /\ finished
  /\ Main("joining", "exited")
  /\ UNCHANGED <<mainHas, stop, server, parts, fate>>

-----------------------------------------------------------------------------

Init ==
  /\ signalled = FALSE
  /\ finished = FALSE
  /\ mainAt = "waiting"
  /\ mainHas = FALSE
  /\ runAt = "migrating"
  /\ runHas = FALSE
  /\ exitCode = 0
  /\ stopRequested = FALSE
  /\ registered = FALSE
  /\ http = "none"
  /\ socket = "none"
  /\ gateway = FALSE
  /\ spatial = FALSE
  /\ projection = "off"
  /\ fate = "none"

RunThread ==
  \/ StartFails \/ Migrate \/ StartGateway \/ BindRoutes \/ StartProjection
  \/ BindFails \/ BindPort \/ RegisterStop \/ StartHttp
  \/ LeaveWait \/ CopyStop \/ CallStop \/ JoinHttp \/ ClearStop
  \/ StopProjection \/ JoinProjection \/ StopSpatial \/ StopGateway \/ Finish

MainThread ==
  \/ WakeUp \/ CheckFinished \/ RequestStop \/ MainCopiesStop \/ MainCallsStop
  \/ Join

HttpThread == Listen \/ HttpEnds

Alive == fate = "none"

Next ==
  /\ Alive
  /\ RunThread \/ MainThread \/ HttpThread \/ ProjectionEnds \/ Signal

Spec == Init /\ [][Next]_vars

\* The scheduler runs the four threads; no signal has to come.
FairSpec ==
  /\ Spec
  /\ WF_vars(Alive /\ RunThread)
  /\ WF_vars(Alive /\ MainThread)
  /\ WF_vars(Alive /\ HttpThread)
  /\ WF_vars(Alive /\ ProjectionEnds)

-----------------------------------------------------------------------------
(* Properties.                                                             *)

FlagsOK ==
  /\ signalled \in BOOLEAN
  /\ finished \in BOOLEAN
  /\ mainHas \in BOOLEAN
  /\ runHas \in BOOLEAN
  /\ stopRequested \in BOOLEAN
  /\ registered \in BOOLEAN
  /\ gateway \in BOOLEAN
  /\ spatial \in BOOLEAN

PlacesOK ==
  /\ mainAt \in {"waiting", "checking", "requesting", "copying", "calling",
                 "joining", "exited"}
  /\ runAt \in {"migrating", "startingGateway", "bindingRoutes",
                "startingProjection", "bindingPort", "registering",
                "startingHttp", "waiting", "copying", "calling", "joiningHttp",
                "clearing", "stoppingProjection", "joiningProjection",
                "stoppingSpatial", "stoppingGateway"} \cup Returned
  /\ exitCode \in {0, 1}
  /\ http \in {"none", "started", "listening", "ended"}
  /\ socket \in {"none", "bound", "closed"}
  /\ projection \in {"off", "on", "stopping"}
  /\ fate \in {"none", "stale"}

\* Every variable has its type (the only type invariant of the module).
TypeOK == FlagsOK /\ PlacesOK

\* When run() returns, by any path, no thread is left that uses its locals or the
\* members of the daemon.
NothingOutlivesRun ==
  runAt \in Returned
    => http \in {"none", "ended"} /\ projection = "off" /\ ~gateway /\ ~spatial

\* A stop function somebody can take belongs to a server that still exists.
RegisteredIsAlive == registered => runAt \notin Returned

\* A daemon that was not asked to stop does not report success.
SuccessWasAskedFor == finished /\ exitCode = 0 => stopRequested

\* The places of run() by what it has started and not stopped yet.
BeforeGateway == {"migrating", "startingGateway"}
BeforeHttp    == BeforeGateway \cup
                 {"bindingRoutes", "startingProjection", "bindingPort",
                  "registering", "startingHttp"}
WithHttp      == {"waiting", "copying", "calling", "joiningHttp"}
AfterHttp     == {"clearing", "stoppingProjection", "joiningProjection",
                  "stoppingSpatial", "stoppingGateway"}

\* Which part may run where run() is.
PartsFollowRun ==
  /\ finished => runAt = "finished"
  /\ exitCode = 1 => runAt \in Returned
  /\ runAt \in {"copying", "calling", "joiningHttp"} \cup AfterHttp => stopRequested
  /\ runAt \in Returned => exitCode = 1 \/ stopRequested
  /\ runAt \in BeforeHttp => http = "none"
  /\ http \in {"started", "listening"} => runAt \in WithHttp
  /\ registered => runAt \in {"startingHttp", "clearing"} \cup WithHttp
  /\ gateway => runAt \notin BeforeGateway \cup Returned
  /\ spatial => runAt \notin BeforeGateway
                           \cup {"bindingRoutes", "stoppingGateway"} \cup Returned
  /\ projection # "off" => runAt \in {"bindingPort", "registering", "startingHttp"}
                              \cup WithHttp
                              \cup {"clearing", "stoppingProjection",
                                    "joiningProjection"}

\* What every step preserves.
IInv == TypeOK /\ PartsFollowRun

\* The stop function was called while the server did not listen yet, twice: the
\* server listens now and run() waits for it.
Deaf == http = "listening" /\ socket = "bound" /\ runAt = "joiningHttp"

\* A signal ends the process, whatever start had come to, but for the two races
\* around the stop function.
SignalEnds == signalled ~> (mainAt = "exited" \/ Deaf \/ ~Alive)

\* A start that fails ends the process with the failure, signal or not.
FailureEnds == exitCode = 1 ~> (mainAt = "exited" \/ ~Alive)

\* docs/ARCHITECTURE.md, Shutdown: SpatialService, FleetGateway and the HTTP server
\* are stopped: a signal leads there.
SignalStopsGateway == signalled ~> (~gateway \/ ~Alive)
=============================================================================
