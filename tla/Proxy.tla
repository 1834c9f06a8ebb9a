------------------------------- MODULE Proxy -------------------------------
(***************************************************************************)
(* The MQTT bridge: VDA5050Proxy with its two VDA5050EndPoints, the        *)
(* MqttSubscriber of each, and the Vda5050EventRecorder hanging on both.   *)
(* Three threads touch them: the one in Daemon::run (start, attach, stop), *)
(* and the loop threads of the local and the cloud MQTT client, the second *)
(* of which sets up the cloud endpoint inside its connect callback.        *)
(*                                                                         *)
(* Messages have no content: a message is the callbacks copied for it, and *)
(* the four callbacks a handler list gets for its four message types are   *)
(* one, as they are registered and cleared together.  An endpoint is a     *)
(* number, 0 the null pointer: a use of a freed endpoint or of a null one  *)
(* ends the behaviour, with what happened in fate.                         *)
(***************************************************************************)
EXTENDS Naturals, Sequences

CONSTANTS
  MaxDrops, \* bound: connections lost to a broker
  MaxFaults \* bound: calls of the MQTT library that fail during cloud setup

ASSUME BoundsAssumption == MaxDrops \in Nat /\ MaxFaults \in Nat

VARIABLES
  pc,        \* where the thread in Daemon::run is
  endpoint,  \* local_endpoint_ and cloud_endpoint_
  made,      \* cloud endpoints constructed so far
  stopped,   \* VDA5050Subscriber::stopped_ of each endpoint
  callbacks, \* the handlers registered at each endpoint, in order
  entries,   \* MqttSubscriber::subscriptions_: topics and who listens
  link,      \* the connection to each broker
  session,   \* the topics the broker has a subscription for
  at,        \* where each loop thread is
  left,      \* the copied handlers it has not called yet
  captured,  \* Vda5050EventRecorder::cloud_ep_
  attached,  \* Vda5050EventRecorder::attached_cloud_
  notify,    \* VDA5050Proxy::on_cloud_connected_
  drops,     \* how many of MaxDrops have happened
  faults,    \* how many of MaxFaults have happened
  fate       \* "none", or what went wrong for the whole process

endpoints == <<endpoint, made, stopped, callbacks>>
clients   == <<entries, link, session>>
threads   == <<at, left>>
recorder  == <<captured, attached, notify>>
vars      == <<pc, endpoints, clients, threads, recorder, drops, faults, fate>>

Sides == {"local", "cloud"}

\* The topics each endpoint subscribes, in the order of its Init().
Topics(side) ==
  IF side = "local" THEN <<"state", "visualization", "connection", "factsheet">>
                    ELSE <<"order", "instantActions", "responses", "zoneSet">>

TopicSet(side) == {Topics(side)[n] : n \in 1..4}

\* The calls of stop(), in order.
StopPhases  == {"stopping", "checking", "stoppingCloud", "disconnecting",
                "joiningLocal", "joiningCloud", "resetting", "done"}
StartPhases == {"starting", "startingCloud", "constructing", "attachingLocal",
                "attachingCloud", "recordingCloud", "settingCallback",
                "settingInvoker"}
SetupPhases == {"connected", "subscribing", "bridging", "addingBridge",
                "bridgingBack", "addingBack", "notifying", "addingRecord"}

Alive         == fate = "none"
Doomed(what)  == fate' = what /\ UNCHANGED <<pc, endpoints, clients, threads,
                                             recorder, drops, faults>>
Goto(place)   == pc' = place /\ UNCHANGED <<drops, faults, fate>>
Move(s, place) == at' = [at EXCEPT ![s] = place]
Add(s, handler) ==
  callbacks' = [callbacks EXCEPT ![s] = Append(@, handler)]

\* On...() of an endpoint tests stopped_ and then takes the lock: a Stop() that comes
\* between has cleared the list before the handler is added to it.  Of the four, the
\* ones before it are then gone, and the ones after it are refused.
AddTested(s, handler) ==
  \/ Add(s, handler)
  \/ stopped[s] /\ UNCHANGED callbacks

-----------------------------------------------------------------------------
(* Daemon::run up to the wait for a stop request.                          *)

\* Connect, construct and subscribe the local endpoint, start its loop.
StartLocal ==
  /\ pc = "starting"
  /\ Goto("startingCloud")
  /\ endpoint' = [endpoint EXCEPT !["local"] = 1]
  /\ entries' = [entries EXCEPT !["local"] = {<<t, 1>> : t \in TopicSet("local")}]
  /\ link' = [link EXCEPT !["local"] = "up"]
  /\ session' = [session EXCEPT !["local"] = TopicSet("local")]
  /\ UNCHANGED <<made, stopped, callbacks, threads, recorder>>

\* A local failure is fatal: stop() finds no thread and no cloud endpoint.
StartLocalFails ==
  /\ pc = "starting"
  /\ Goto("done")
  /\ UNCHANGED <<endpoints, clients, threads, recorder>>

\* setConnectCallback, loop_start, connect_async.  When one of the last two
\* fails the cloud never connects.
StartCloud ==
  /\ pc = "startingCloud"
  /\ Goto("constructing")
  /\ UNCHANGED <<endpoints, clients, threads, recorder>>

\* The recorder keeps the cloud endpoint there is at this moment, or null.
ConstructRecorder ==
  /\ pc = "constructing"
  /\ Goto("attachingLocal")
  /\ captured' = endpoint["cloud"]
  /\ UNCHANGED <<endpoints, clients, threads, attached, notify>>

\* attach(), on the thread that also stops.
AttachLocal ==
  /\ pc = "attachingLocal"
  /\ Goto("attachingCloud")
  /\ Add("local", "record")
  /\ UNCHANGED <<endpoint, made, stopped, clients, threads, recorder>>

\* Mutants: attachCloud() without its flag, checked or set.
NothingCaptured == captured = 0
AttachUnflagged == UNCHANGED recorder

\* attachCloud(), on either thread: when it returns early, and what it does first else.
NothingToAttach == captured = 0 \/ attached

Attach ==
  /\ attached' = TRUE
  /\ UNCHANGED <<captured, notify>>

AttachCloud ==
  /\ pc = "attachingCloud"
  /\ Goto(IF NothingToAttach THEN "settingCallback" ELSE "recordingCloud")
  /\ IF NothingToAttach THEN UNCHANGED recorder ELSE Attach
  /\ UNCHANGED <<endpoints, clients, threads>>

\* Its handlers.  On this thread no Stop() comes between, but the cloud thread may
\* give up the endpoint.
RecordCloud ==
  /\ pc = "recordingCloud"
  /\ \/ /\ captured = endpoint["cloud"]
        /\ Goto("settingCallback")
        /\ AddTested("cloud", "record")
        /\ UNCHANGED <<endpoint, made, stopped, clients, threads, recorder>>
     \/ /\ captured # endpoint["cloud"]
        /\ Doomed("dangling")

\* setOnCloudConnected swaps a std::function the cloud thread may be reading:
\* it is callable before its invoker is in place.
SetOnCloudConnected ==
  /\ pc = "settingCallback"
  /\ Goto("settingInvoker")
  /\ notify' = "torn"
  /\ UNCHANGED <<endpoints, clients, threads, captured, attached>>

SetInvoker ==
  /\ pc = "settingInvoker"
  /\ Goto("running")
  /\ notify' = "set"
  /\ UNCHANGED <<endpoints, clients, threads, captured, attached>>

-----------------------------------------------------------------------------
(* Daemon::run after the stop request: VDA5050Proxy::stop().               *)

RequestStop ==
  /\ pc = "running"
  /\ Goto("stopping")
  /\ UNCHANGED <<endpoints, clients, threads, recorder>>

\* VDA5050EndPoint::Stop: handlers cleared, nothing called after.
StopEndpoint(s) ==
  /\ stopped' = [stopped EXCEPT ![s] = TRUE]
  /\ callbacks' = [callbacks EXCEPT ![s] = <<>>]
  /\ UNCHANGED <<endpoint, made, clients, threads, recorder>>

StopLocal ==
  /\ pc = "stopping"
  /\ Goto("checking")
  /\ StopEndpoint("local")

\* The null check and the call read the pointer twice.
CheckCloud ==
  /\ pc = "checking"
  /\ Goto(IF endpoint["cloud"] = 0 THEN "disconnecting" ELSE "stoppingCloud")
  /\ UNCHANGED <<endpoints, clients, threads, recorder>>

StopCloud ==
  /\ pc = "stoppingCloud"
  /\ \/ /\ endpoint["cloud"] # 0
        /\ Goto("disconnecting")
        /\ StopEndpoint("cloud")
     \/ /\ endpoint["cloud"] = 0
        /\ Doomed("null")

\* Mutant: the clients are not disconnected before their loops are stopped.
StayConnected ==
  /\ pc = "disconnecting"
  /\ Goto("joiningLocal")
  /\ UNCHANGED <<endpoints, clients, threads, recorder>>

Disconnect ==
  /\ pc = "disconnecting"
  /\ Goto("joiningLocal")
  /\ link' = [s \in Sides |-> "closed"]
  /\ session' = [s \in Sides |-> {}]
  /\ UNCHANGED <<endpoints, entries, threads, recorder>>

\* loop_stop(true) cancels the thread and joins it.
Join(s, from, to) ==
  /\ pc = from
  /\ at[s] \in {"idle", "ended"}
  /\ Goto(to)
  /\ UNCHANGED <<endpoints, clients, threads, recorder>>

JoinLocal == Join("local", "joiningLocal", "joiningCloud")
JoinCloud == Join("cloud", "joiningCloud", "resetting")

\* A thread cancelled in a handler unwinds into a catch (...) that does not
\* rethrow, which aborts the process; cancelled in the cloud setup it ends there.
Cancel(s, from) ==
  /\ pc = from
  /\ \/ /\ at[s] \in {"copied", "running"}
        /\ Doomed("abort")
     \/ /\ at[s] \in SetupPhases
        /\ Move(s, "ended")
        /\ UNCHANGED <<pc, endpoints, clients, left, recorder, drops, faults,
                       fate>>

Reset ==
  /\ pc = "resetting"
  /\ Goto("done")
  /\ endpoint' = [s \in Sides |-> 0]
  /\ UNCHANGED <<made, stopped, callbacks, clients, threads, recorder>>

-----------------------------------------------------------------------------
(* The cloud loop thread: the connect callback.                            *)

\* What the connect callback changes besides the thread that runs it.
SetupStep(from) ==
  /\ at["cloud"] = from
  /\ UNCHANGED <<pc, left, drops, fate>>

\* Mutant: every connect sets up a fresh endpoint and drops the old one.
SetUpAgain ==
  /\ SetupStep("connected")
  /\ endpoint["cloud"] # 0
  /\ endpoint' = [endpoint EXCEPT !["cloud"] = 0]
  /\ UNCHANGED <<made, stopped, callbacks, clients, at, recorder, faults>>

\* Set up already: nothing is subscribed again.
OnConnectAgain ==
  /\ SetupStep("connected")
  /\ endpoint["cloud"] # 0
  /\ Move("cloud", "idle")
  /\ UNCHANGED <<endpoints, clients, recorder, faults>>

CreateEndpoint ==
  /\ SetupStep("connected")
  /\ endpoint["cloud"] = 0
  /\ made' = made + 1
  /\ endpoint' = [endpoint EXCEPT !["cloud"] = made + 1]
  /\ stopped' = [stopped EXCEPT !["cloud"] = FALSE]
  /\ callbacks' = [callbacks EXCEPT !["cloud"] = <<>>]
  /\ Move("cloud", "subscribing")
  /\ UNCHANGED <<clients, recorder, faults>>

\* cloud_endpoint_.reset(): the entries of the endpoint stay in the client.
DropEndpoint ==
  /\ endpoint' = [endpoint EXCEPT !["cloud"] = 0]
  /\ Move("cloud", "idle")
  /\ UNCHANGED <<made, stopped, clients, recorder>>

\* One of the four subscribe calls of Init().  A request sent on a connection
\* that is gone is lost.
SubscribeOne ==
  /\ SetupStep("subscribing")
  /\ ~stopped["cloud"]
  /\ \E n \in 1..4 :
       LET Entry(k) == <<Topics("cloud")[k], endpoint["cloud"]>> IN
       /\ \A k \in 1..4 : Entry(k) \in entries["cloud"] <=> k < n
       /\ entries' = [entries EXCEPT !["cloud"] = @ \cup {Entry(n)}]
       /\ session' = [session EXCEPT !["cloud"] =
                        IF link["cloud"] = "up" THEN @ \cup {Topics("cloud")[n]} ELSE @]
       /\ Move("cloud", IF n = 4 THEN "bridging" ELSE "subscribing")
  /\ UNCHANGED <<endpoints, link, recorder, faults>>

SubscribeFails ==
  /\ SetupStep("subscribing")
  /\ \/ stopped["cloud"] /\ UNCHANGED faults
     \/ faults < MaxFaults /\ faults' = faults + 1
  /\ DropEndpoint
  /\ UNCHANGED callbacks

\* Mutant: a failed setup leaves the endpoint in place.
BridgeOrNot(s, from, to) ==
  /\ SetupStep(from)
  /\ Move("cloud", IF stopped[s] THEN "idle" ELSE to)
  /\ UNCHANGED <<faults, endpoints, clients, recorder>>

\* bridge_local_to_cloud(), then bridge_cloud_to_local(): the test, which fails at an
\* endpoint that is stopped.
Bridge(s, from, to) ==
  /\ SetupStep(from)
  /\ UNCHANGED <<faults, callbacks>>
  /\ \/ /\ ~stopped[s]
        /\ Move("cloud", to)
        /\ UNCHANGED <<endpoint, made, stopped, clients, recorder>>
     \/ /\ stopped[s]
        /\ DropEndpoint

\* The handler: added, or the endpoint is stopped meanwhile and a later one of the
\* four is refused.
AddBridge(s, from, to) ==
  /\ SetupStep(from)
  /\ UNCHANGED faults
  /\ \/ /\ Add(s, "bridge")
        /\ Move("cloud", to)
        /\ UNCHANGED <<endpoint, made, stopped, clients, recorder>>
     \/ /\ stopped[s]
        /\ AddTested(s, "bridge")
        /\ DropEndpoint

BridgeLocalToCloud ==
  \/ Bridge("local", "bridging", "addingBridge")
  \/ AddBridge("local", "addingBridge", "bridgingBack")

BridgeCloudToLocal ==
  \/ Bridge("cloud", "bridgingBack", "addingBack")
  \/ AddBridge("cloud", "addingBack", "notifying")

\* on_cloud_connected_, if it is there: the recorder's attachCloud().
Notify ==
  /\ at["cloud"] = "notifying"
  /\ \/ /\ notify # "set" \/ NothingToAttach
        /\ Move("cloud", "idle")
        /\ UNCHANGED <<pc, endpoints, clients, left, recorder, drops, faults, fate>>
     \/ /\ notify = "torn"
        /\ Doomed("torn")
     \/ /\ notify = "set"
        /\ ~NothingToAttach
        /\ captured = endpoint["cloud"]
        /\ Attach
        /\ Move("cloud", IF stopped["cloud"] THEN "idle" ELSE "addingRecord")
        /\ UNCHANGED <<pc, endpoints, clients, left, drops, faults, fate>>
     \/ /\ notify = "set"
        /\ ~NothingToAttach
        /\ captured # endpoint["cloud"]
        /\ Doomed("dangling")

AddRecord ==
  /\ SetupStep("addingRecord")
  /\ AddTested("cloud", "record")
  /\ Move("cloud", "idle")
  /\ UNCHANGED <<endpoint, made, stopped, clients, recorder, faults>>

-----------------------------------------------------------------------------
(* Either loop thread: a message.                                          *)

\* The endpoints handle_message() finds for a topic; an entry outlives its
\* endpoint.
Listeners(s, t) == {e[2] : e \in {x \in entries[s] : x[1] = t}}

\* The handler of a live endpoint copies its callbacks.
Receive(s) ==
  /\ at[s] = "idle"
  /\ link[s] = "up"
  /\ \E t \in session[s] :
       \/ /\ Listeners(s, t) = {endpoint[s]}
          /\ Move(s, "copied")
          /\ left' = [left EXCEPT ![s] = callbacks[s]]
          /\ UNCHANGED <<pc, endpoints, clients, recorder, drops, faults, fate>>
       \/ /\ \E g \in Listeners(s, t) : g # endpoint[s]
          /\ Doomed("dangling")

\* dispatch(): nothing is called once the endpoint is stopped.
Dispatch(s) ==
  /\ at[s] = "copied"
  /\ LET calls == ~stopped[s] /\ left[s] # <<>> IN
       /\ Move(s, IF calls THEN "running" ELSE "idle")
       /\ left' = IF calls THEN left ELSE [left EXCEPT ![s] = <<>>]
  /\ UNCHANGED <<pc, endpoints, clients, recorder, drops, faults, fate>>

\* The bridging handler of one side publishes at the endpoint of the other.
Opposite(s) == IF s = "local" THEN "cloud" ELSE "local"

RunCallback(s) ==
  /\ at[s] = "running"
  /\ \/ /\ Head(left[s]) = "bridge" => endpoint[Opposite(s)] # 0
        /\ left' = [left EXCEPT ![s] = Tail(@)]
        /\ Move(s, IF Len(left[s]) = 1 THEN "idle" ELSE "running")
        /\ UNCHANGED <<pc, endpoints, clients, recorder, drops, faults, fate>>
     \/ /\ Head(left[s]) = "bridge"
        /\ endpoint[Opposite(s)] = 0
        /\ Doomed("null")

-----------------------------------------------------------------------------
(* The brokers.  Both clients ask for a clean session.                     *)

LoseLink(s) ==
  /\ link[s] = "up"
  /\ drops < MaxDrops
  /\ drops' = drops + 1
  /\ link' = [link EXCEPT ![s] = "down"]
  /\ session' = [session EXCEPT ![s] = {}]
  /\ UNCHANGED <<pc, endpoints, entries, threads, recorder, faults, fate>>

\* Mutants: the connect callback is set on both clients; it is set too late for
\* the first connection.
ConnectBoth(s) ==
  /\ link[s] = "down"
  /\ at[s] = "idle"
  /\ pc \notin {"starting", "done"}
  /\ link' = [link EXCEPT ![s] = "up"]
  /\ Move(s, "connected")
  /\ UNCHANGED <<pc, endpoints, entries, session, left, recorder, drops, faults,
                 fate>>

ConnectUnnoticed(s) ==
  /\ link[s] = "down"
  /\ at[s] = "idle"
  /\ pc \notin {"starting", "startingCloud", "done"}
  /\ link' = [link EXCEPT ![s] = "up"]
  /\ IF s = "cloud" /\ drops > 0 THEN Move(s, "connected") ELSE UNCHANGED at
  /\ UNCHANGED <<pc, endpoints, entries, session, left, recorder, drops, faults,
                 fate>>

\* Connected, for the first time or again; only the cloud client has a connect
\* callback.
Connect(s) ==
  /\ link[s] = "down"
  /\ at[s] = "idle"
  /\ pc \notin {"starting", "done"}
  /\ s = "cloud" => pc # "startingCloud"
  /\ link' = [link EXCEPT ![s] = "up"]
  /\ IF s = "cloud" THEN Move(s, "connected") ELSE UNCHANGED at
  /\ UNCHANGED <<pc, endpoints, entries, session, left, recorder, drops, faults,
                 fate>>

-----------------------------------------------------------------------------

Init ==
  /\ pc = "starting"
  /\ endpoint = [s \in Sides |-> 0]
  /\ made = 0
  /\ stopped = [s \in Sides |-> FALSE]
  /\ callbacks = [s \in Sides |-> <<>>]
  /\ entries = [s \in Sides |-> {}]
  /\ link = [s \in Sides |-> "down"]
  /\ session = [s \in Sides |-> {}]
  /\ at = [s \in Sides |-> "idle"]
  /\ left = [s \in Sides |-> <<>>]
  /\ captured = 0
  /\ attached = FALSE
  /\ notify = "unset"
  /\ drops = 0
  /\ faults = 0
  /\ fate = "none"

\* Daemon::run, without the stop request, which comes from a signal.
DaemonThread ==
  \/ StartLocal \/ StartLocalFails \/ StartCloud \/ ConstructRecorder
  \/ AttachLocal \/ AttachCloud \/ RecordCloud \/ SetOnCloudConnected \/ SetInvoker
  \/ StopLocal \/ CheckCloud \/ StopCloud \/ Disconnect
  \/ JoinLocal \/ JoinCloud \/ Reset

\* The connect callback, failures of the library apart.
CloudSetup ==
  \/ OnConnectAgain \/ CreateEndpoint \/ SubscribeOne
  \/ BridgeLocalToCloud \/ BridgeCloudToLocal \/ Notify \/ AddRecord

Handle(s) == Dispatch(s) \/ RunCallback(s)

Next ==
  /\ Alive
  /\ \/ DaemonThread
     \/ RequestStop
     \/ CloudSetup
     \/ SubscribeFails
     \/ \E s \in Sides :
          Receive(s) \/ Handle(s) \/ LoseLink(s) \/ Connect(s)
     \/ Cancel("local", "joiningLocal")
     \/ Cancel("cloud", "joiningCloud")

Spec == Init /\ [][Next]_vars

\* The scheduler runs the three threads; nothing makes a broker answer, a
\* message arrive or a signal come.
FairSpec ==
  /\ Spec
  /\ WF_vars(Alive /\ DaemonThread)
  /\ WF_vars(Alive /\ (CloudSetup \/ SubscribeFails))
  /\ \A s \in Sides : WF_vars(Alive /\ Handle(s))

-----------------------------------------------------------------------------
(* Properties.                                                             *)

Handlers == {"bridge", "record"}

\* Every variable has its type (the only type invariant of the module).
TypeOK ==
  /\ pc \in StartPhases \cup {"running"} \cup StopPhases
  /\ endpoint \in [Sides -> Nat]
  /\ made \in Nat
  /\ stopped \in [Sides -> BOOLEAN]
  /\ callbacks \in [Sides -> Seq(Handlers)]
  /\ DOMAIN entries = Sides
  /\ \A s \in Sides : entries[s] \subseteq TopicSet(s) \X (Nat \ {0})
  /\ link \in [Sides -> {"down", "up", "closed"}]
  /\ DOMAIN session = Sides
  /\ \A s \in Sides : session[s] \subseteq TopicSet(s)
  /\ at \in [Sides -> {"idle", "copied", "running", "ended"} \cup SetupPhases]
  /\ at["local"] \notin {"ended"} \cup SetupPhases
  /\ left \in [Sides -> Seq(Handlers)]
  /\ captured \in Nat
  /\ attached \in BOOLEAN
  /\ notify \in {"unset", "torn", "set"}
  /\ drops \in 0..MaxDrops
  /\ faults \in 0..MaxFaults
  /\ fate \in {"none", "null", "dangling", "torn", "abort"}

Registered(s, handler) == \E n \in DOMAIN callbacks[s] : callbacks[s][n] = handler

\* However often the cloud is lost and found again, whoever calls attachCloud()
\* and whatever setup failed before, no handler is registered twice: a message is
\* not forwarded or recorded twice by one client.
HandlersRegisteredOnce ==
  \A s \in Sides : \A m, n \in DOMAIN callbacks[s] :
    callbacks[s][m] = callbacks[s][n] => m = n

\* A cloud endpoint that outlives its setup forwards in both directions: a setup
\* that fails half way, or is overtaken by stop(), leaves no half bridge behind.
NeverHalfBridged ==
  endpoint["cloud"] # 0 /\ at["cloud"] \notin SetupPhases \cup {"ended"}
    => \A s \in Sides : stopped[s] \/ Registered(s, "bridge")

\* A thread is in attachCloud(), between its flag and its handlers.
Attaching == pc = "recordingCloud" \/ at["cloud"] = "addingRecord"

\* The flag of the recorder agrees with the handlers of the endpoint it captured,
\* whichever thread attached it and whatever became of the setup, so that a call of
\* attachCloud() which returns early has nothing to do.
AttachedIsRecording ==
  captured # 0 /\ captured = endpoint["cloud"] /\ ~stopped["cloud"] /\ ~Attaching
    => (attached <=> Registered("cloud", "record"))

\* The last cloud setup has failed: its endpoint is gone.
SetupFailed == made # endpoint["cloud"]

\* The threads share pointers and a std::function without a lock.  A freed or null
\* endpoint is used, or the process aborted, only after the MQTT library failed a
\* cloud setup or while the daemon stops; the function is called half swapped only
\* by the setup that ends in that moment of the start, and by no reconnect.
BadAccessNeedsFailedSetup ==
  ~Alive => \/ faults > 0
            \/ pc \in StopPhases
            \/ fate = "torn" /\ pc = "settingInvoker"

\* The parts of what every step preserves.  Which thread can be where: stop() goes
\* through its calls in order, and a client that is closed receives nothing.
ThreadsInOrder ==
  /\ pc = "starting" => \A s \in Sides : link[s] = "down" /\ at[s] = "idle"
  /\ pc \in {"joiningLocal", "joiningCloud", "resetting"}
       => \A s \in Sides : link[s] = "closed"
  /\ pc = "done" => \A s \in Sides : link[s] # "up"
  /\ pc \in {"resetting", "done"} => at["cloud"] \in {"idle", "ended"}
  /\ stopped["cloud"] => stopped["local"]
  /\ stopped["local"] => pc \in StopPhases \ {"stopping"}
  /\ pc \in StopPhases \ {"stopping", "done"} => stopped["local"]
  /\ notify = "torn" => pc = "settingInvoker"
  /\ notify = "set" => pc \notin StartPhases
  /\ \A s \in Sides : at[s] = "running" => left[s] # <<>>

Bridged(s) == stopped[s] \/ Registered(s, "bridge")

\* The thread of the cloud client has tested an endpoint and not yet added to it.
Adding(s) ==
  IF s = "local" THEN at["cloud"] = "addingBridge"
                 ELSE at["cloud"] \in {"addingBack", "addingRecord"}

\* How far a setup has come is what it has registered, and what is registered at an
\* endpoint that is stopped is the one handler that had been tested before.
HandlersFollowSetup ==
  /\ at["cloud"] \in SetupPhases \ {"connected"} => endpoint["cloud"] # 0
  /\ \A s \in Sides : \A h \in Handlers : stopped[s] /\ Registered(s, h)
       => ~Adding(s) /\ \A k \in Handlers : Registered(s, k) => k = h
  /\ pc \in {"starting", "startingCloud", "constructing", "attachingLocal"}
       => ~Registered("local", "record")
  /\ endpoint["cloud"] = 0 \/ at["cloud"] \in {"subscribing", "bridging"}
       => stopped["local"] \/ ~Registered("local", "bridge")
  /\ at["cloud"] = "addingBridge" => ~Registered("local", "bridge")
  /\ at["cloud"] \in {"subscribing", "bridging", "addingBridge", "bridgingBack",
                      "addingBack"}
       => ~Registered("cloud", "bridge")
  /\ at["cloud"] \in {"bridgingBack", "addingBack"} => Bridged("local")
  /\ /\ endpoint["cloud"] # 0
     /\ at["cloud"] \notin {"subscribing", "bridging", "addingBridge", "bridgingBack",
                            "addingBack", "ended"}
     => \A s \in Sides : Bridged(s)

\* The recorder's endpoint is one that was made, and its flag is about that one.
RecorderFollowsEndpoint ==
  /\ endpoint["cloud"] <= made
  /\ captured <= made
  /\ pc \in {"starting", "startingCloud", "constructing"} => ~attached /\ captured = 0
  /\ Registered("cloud", "record") /\ endpoint["cloud"] # 0
       => attached /\ captured = endpoint["cloud"]
  /\ Attaching => attached /\ captured # 0
  /\ at["cloud"] = "addingRecord" => captured = endpoint["cloud"] /\ notify = "set"
  /\ Attaching /\ captured = endpoint["cloud"] => ~Registered("cloud", "record")
  /\ pc \in {"disconnecting", "joiningLocal", "joiningCloud", "resetting"}
       => captured = 0 \/ captured # endpoint["cloud"] \/ stopped["cloud"]

\* Without a failure of the library there is one cloud endpoint until the daemon
\* stops, and every pointer is to it.
PointersAreLive ==
  \/ faults > 0
  \/ pc \in StopPhases
  \/ /\ endpoint["cloud"] = made
     /\ captured \in {0, made}
     /\ pc # "starting" => endpoint["local"] # 0
     /\ \A s \in Sides : \A e \in entries[s] : e[2] = endpoint[s]
     /\ \A s \in Sides :
          Registered(s, "bridge") \/ (\E n \in DOMAIN left[s] : left[s][n] = "bridge")
            => endpoint[Opposite(s)] # 0

\* What every step preserves.
IInv ==
  /\ TypeOK
  /\ ThreadsInOrder
  /\ HandlersRegisteredOnce
  /\ HandlersFollowSetup
  /\ RecorderFollowsEndpoint
  /\ AttachedIsRecording
  /\ PointersAreLive
  /\ BadAccessNeedsFailedSetup

\* Stopping ends, with the endpoints gone and no thread in a handler, whatever the
\* loop threads were doing: the joins do not wait for ever.
ShutdownCompletes ==
  pc = "stopping"
    ~> ~Alive \/ (pc = "done" /\ \A s \in Sides : at[s] \in {"idle", "ended"})

\* A cloud connection leads to a bridge, unless a setup has failed, the connection
\* is lost or the daemon does not run any more.
ConnectedIsBridged ==
  pc = "running" /\ link["cloud"] = "up"
    ~> \/ Registered("local", "bridge") /\ Registered("cloud", "bridge")
       \/ SetupFailed \/ link["cloud"] # "up" \/ pc # "running" \/ ~Alive

\* Vda5050EventRecorder.hpp: "Cloud callbacks are skipped if the cloud endpoint is
\* not yet available; call attachCloud() later."  While the daemon runs, a
\* downlink message that is about to be forwarded is about to be recorded.
ForwardedIsRecorded ==
  pc = "running" /\ at["cloud"] = "copied"
    => \A n \in DOMAIN left["cloud"] :
         left["cloud"][n] = "bridge"
           => \E m \in DOMAIN left["cloud"] : left["cloud"][m] = "record"

\* README.md: the local endpoint subscribes four topics and forwards to the cloud,
\* the cloud endpoint four others and forwards to the local side.
ConnectedIsSubscribed ==
  \A s \in Sides :
    pc = "running" /\ link[s] = "up"
      ~> \/ session[s] = TopicSet(s)
         \/ SetupFailed \/ link[s] # "up" \/ pc # "running" \/ ~Alive
=============================================================================
