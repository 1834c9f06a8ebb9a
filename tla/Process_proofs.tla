---------------------------- MODULE Process_proofs ----------------------------
(***************************************************************************)
(* The invariant of Daemon and what it says of the end of Daemon::run(),   *)
(* and the whole process for any set of configuration keys, texts and      *)
(* numbers: what the daemon is configured with follows from the command    *)
(* line and the file, and the steps before the daemon exists leave its     *)
(* invariant alone.  Daemon has no constants: its part gives the argument  *)
(* for what the run enumerates.                                            *)
(***************************************************************************)
EXTENDS Process, TLAPS

-----------------------------------------------------------------------------
(* Daemon.                                                                 *)

LEMMA InitIInv == Init => IInv
  <1>1. Init => FlagsOK
    BY Zenon DEF Init, FlagsOK
  <1>2. Init => PlacesOK /\ PartsFollowRun
    BY DEF Init, PlacesOK, PartsFollowRun, Returned, BeforeGateway, BeforeHttp,
           WithHttp, AfterHttp
  <1> QED BY <1>1, <1>2 DEF IInv, TypeOK

\* A part is started at its place, or the start ends: nothing runs before.
LEMMA StartSteps ==
  ASSUME IInv,
         \/ StartFails \/ Migrate \/ StartGateway \/ BindRoutes \/ StartProjection
         \/ BindFails \/ BindPort \/ RegisterStop \/ StartHttp
  PROVE  IInv'
  <1> USE DEF StartFails, Migrate, StartGateway, BindRoutes, StartProjection,
              BindFails, BindPort, RegisterStop, StartHttp, Run, main, parts, server
  <1>1. FlagsOK'
    BY Zenon DEF IInv, TypeOK, FlagsOK
  <1>2. PlacesOK'
    BY DEF IInv, TypeOK, PlacesOK, Returned
  <1>3. PartsFollowRun'
    BY DEF IInv, TypeOK, PlacesOK, PartsFollowRun, Returned, BeforeGateway,
           BeforeHttp, WithHttp, AfterHttp
  <1> QED BY <1>1, <1>2, <1>3 DEF IInv, TypeOK

\* Each join and each stop() comes before the place from which its part is gone.
LEMMA StopSteps ==
  ASSUME IInv,
         \/ LeaveWait \/ CopyStop \/ CallStop \/ JoinHttp \/ ClearStop
         \/ StopProjection \/ JoinProjection \/ StopSpatial \/ StopGateway \/ Finish
  PROVE  IInv'
  <1> USE DEF LeaveWait, CopyStop, CallStop, StopServer, JoinHttp, ClearStop,
              StopProjection, JoinProjection, StopSpatial, StopGateway, Finish,
              Run, main, stop, parts, server
  <1>1. FlagsOK'
    BY Zenon DEF IInv, TypeOK, FlagsOK
  <1>2. PlacesOK'
    BY DEF IInv, TypeOK, PlacesOK, Returned
  <1>3. PartsFollowRun'
    BY DEF IInv, TypeOK, PlacesOK, PartsFollowRun, Returned, BeforeGateway,
           BeforeHttp, WithHttp, AfterHttp
  <1> QED BY <1>1, <1>2, <1>3 DEF IInv, TypeOK

\* The other threads start no part.
LEMMA OtherSteps ==
  ASSUME IInv, MainThread \/ HttpThread \/ ProjectionEnds \/ Signal
  PROVE  IInv'
  <1> USE DEF MainThread, WakeUp, CheckFinished, RequestStop, MainCopiesStop,
              MainCallsStop, StopServer, Join, HttpThread, Listen, HttpEnds,
              ProjectionEnds, Signal, Main, main, run, stop, parts, server
  <1>1. FlagsOK'
    BY Zenon DEF IInv, TypeOK, FlagsOK
  <1>2. PlacesOK'
    BY DEF IInv, TypeOK, PlacesOK, Returned
  <1>3. PartsFollowRun'
    BY DEF IInv, TypeOK, PlacesOK, PartsFollowRun, Returned, BeforeGateway,
           BeforeHttp, WithHttp, AfterHttp
  <1> QED BY <1>1, <1>2, <1>3 DEF IInv, TypeOK

LEMMA NextIInv == IInv /\ [Next]_vars => IInv'
  <1> SUFFICES ASSUME IInv, [Next]_vars PROVE IInv'
    OBVIOUS
  <1>1. CASE UNCHANGED vars
    BY <1>1 DEF vars, main, run, stop, parts, server, IInv, TypeOK, FlagsOK, PlacesOK,
                PartsFollowRun
  <1>2. CASE RunThread
    BY <1>2, StartSteps, StopSteps DEF RunThread
  <1>3. CASE MainThread \/ HttpThread \/ ProjectionEnds \/ Signal
    BY <1>3, OtherSteps
  <1> QED BY <1>1, <1>2, <1>3 DEF Next

\* The invariant of Daemon holds in every reachable state.
THEOREM Invariance == Spec => []IInv
  BY InitIInv, NextIInv, PTL DEF Spec

\* When run() returns no thread is left that uses the daemon.
LEMMA NothingLeft == IInv => NothingOutlivesRun
  BY DEF IInv, PartsFollowRun, TypeOK, PlacesOK, NothingOutlivesRun, Returned,
         BeforeGateway, WithHttp

\* A stop function that can be taken belongs to a server that exists.
LEMMA RegisteredWhileRunning == IInv => RegisteredIsAlive
  BY DEF IInv, PartsFollowRun, RegisteredIsAlive, Returned, WithHttp

\* Without a request to stop, run() ends only by a failure, and reports it.
LEMMA EndsAskedOrFailed == IInv => SuccessWasAskedFor
  BY DEF IInv, PartsFollowRun, SuccessWasAskedFor, Returned

\* Of a daemon by itself: when run() returns no thread is left that uses it.
THEOREM NothingOutlives == Spec => []NothingOutlivesRun
  BY NothingLeft, Invariance, PTL

\* The stop function of a server that is gone cannot be taken.
THEOREM RegisteredAlive == Spec => []RegisteredIsAlive
  BY RegisteredWhileRunning, Invariance, PTL

\* run() returns success only when it was asked to stop.
THEOREM SuccessAskedFor == Spec => []SuccessWasAskedFor
  BY EndsAskedOrFailed, Invariance, PTL

-----------------------------------------------------------------------------
(* The process around it.                                                  *)

\* config_cli.
Converted ==
  [k \in Keys |-> IF k \notin DOMAIN options THEN Default[k]
                  ELSE IF k \in Ports THEN ToPort(Stoi[options[k]])
                  ELSE options[k]]

PortsConvert == \A k \in DOMAIN options \cap Ports : options[k] \in DOMAIN Stoi

\* What config is at every stage.
ConfigIInv ==
  /\ stage = "loading" => PortsConvert /\ config = Converted
  /\ IsConfigured =>
       /\ PortsConvert
       /\ config = IF FileLoads THEN Override(InFile, Converted) ELSE Converted

LEMMA InitConfigIInv == ConfigInit => ConfigIInv
  BY DEF ConfigInit, ConfigIInv, IsConfigured

LEMMA ConfiguringKeeps ==
  ASSUME ConfigIInv, Configuring \/ Construct
  PROVE  ConfigIInv'
  <1> USE DEF ConfigIInv, IsConfigured, PortsConvert
  <1>1. CASE ParseArgs
    BY <1>1 DEF ParseArgs
  <1>2. CASE Convert
    <2>1. Converted' = Converted /\ PortsConvert' = PortsConvert
      BY <1>2 DEF Convert, Converted
    <2> QED BY <1>2, <2>1 DEF Convert, Converted
  <1>3. CASE LoadFile
    <2>1. /\ Converted' = Converted /\ FileLoads' = FileLoads /\ InFile' = InFile
          /\ PortsConvert' = PortsConvert
      BY <1>3 DEF LoadFile, Converted, FileLoads, InFile
    <2>2. PortsConvert /\ config = Converted
      BY <1>3 DEF LoadFile
    <2>3. config' = IF FileLoads THEN Override(InFile, Converted) ELSE Converted
      BY <1>3, <2>2 DEF LoadFile
    <2> QED BY <1>3, <2>1, <2>2, <2>3 DEF LoadFile, Override
  <1>4. CASE Construct
    <2>1. /\ Converted' = Converted /\ FileLoads' = FileLoads /\ InFile' = InFile
          /\ PortsConvert' = PortsConvert /\ config' = config
      BY <1>4 DEF Construct, Converted, FileLoads, InFile
    <2> QED BY <1>4, <2>1 DEF Construct, Override
  <1> QED BY <1>1, <1>2, <1>3, <1>4 DEF Configuring

LEMMA ConfigUnchanged ==
  ASSUME ConfigIInv, UNCHANGED configVars
  PROVE  ConfigIInv'
  BY DEF ConfigIInv, IsConfigured, PortsConvert, Converted, FileLoads, InFile, Override,
         configVars

\* Before the daemon runs only the main thread moves, to its end.
LEMMA PrepareKeeps ==
  ASSUME IInv, Prepare
  PROVE  IInv'
  <1> USE DEF Prepare, run, stop, server, parts
  <1>1. FlagsOK'
    BY Zenon DEF IInv, TypeOK, FlagsOK
  <1>2. PlacesOK'
    BY DEF IInv, TypeOK, PlacesOK
  <1>3. PartsFollowRun'
    BY DEF IInv, PartsFollowRun
  <1> QED BY <1>1, <1>2, <1>3 DEF IInv, TypeOK

LEMMA ProcessNextIInv ==
  IInv /\ ConfigIInv /\ [ProcessNext]_processVars => IInv' /\ ConfigIInv'
  <1> SUFFICES ASSUME IInv, ConfigIInv, [ProcessNext]_processVars
               PROVE  IInv' /\ ConfigIInv'
    OBVIOUS
  <1>1. CASE Prepare
    <2>1. Configuring \/ Construct
      BY <1>1 DEF Prepare
    <2> QED BY <1>1, <2>1, PrepareKeeps, ConfiguringKeeps
  <1>2. CASE UNCHANGED configVars /\ [Next]_vars
    BY <1>2, NextIInv, ConfigUnchanged
  <1>3. Prepare \/ (UNCHANGED configVars /\ [Next]_vars)
    BY DEF ProcessNext, While, Next, processVars
  <1> QED BY <1>1, <1>2, <1>3

\* The invariant of Daemon holds whatever the daemon is configured with, and of the
\* process that never gets as far.
THEOREM ProcessInvariance == ProcessSpec => [](IInv /\ ConfigIInv)
  <1>1. ProcessInit => IInv /\ ConfigIInv
    BY InitIInv, InitConfigIInv DEF ProcessInit
  <1> QED BY <1>1, ProcessNextIInv, PTL DEF ProcessSpec

\* An asked-for number that is a port is left as it is by the cast.
LEMMA PortsStay ==
  ASSUME NEW n, IsPort(n)
  PROVE  ToPort(n) = n
  <1>1. n \in Int /\ 0 <= n /\ n <= 65535
    BY DEF IsPort
  <1>2. n % 65536 = n
    BY <1>1
  <1> QED BY <1>2 DEF ToPort

LEMMA ConvertedPorts ==
  ASSUME PortsConvert, NEW k \in Ports \cap DOMAIN options
  PROVE  Stoi[options[k]] \in Asked(k) /\ Converted[k] = ToPort(Stoi[options[k]])
  BY DEF PortsConvert, Asked, Converted, Keys

LEMMA FilePorts ==
  ASSUME FileLoads, NEW k \in Ports
  PROVE  JsonNumber[file[k]] \in Asked(k) /\ InFile[k] = ToPort(JsonNumber[file[k]])
  BY DEF FileLoads, Asked, InFile, Keys

\* Which of the two a member is taken from.
LEMMA WhereFrom ==
  ASSUME ConfigIInv, IsConfigured, NEW k \in Keys
  PROVE  /\ ~FileLoads => config[k] = Converted[k]
         /\ FileLoads => config[k] = IF Converted[k] # Default[k] THEN Converted[k]
                                                                 ELSE InFile[k]
  BY DEF ConfigIInv, Override

LEMMA NoUnaskedPort ==
  ASSUME ConfigIInv
  PROVE  UnaskedPortWasNoPort
  <1> SUFFICES ASSUME IsConfigured, NEW k \in Ports,
                      \A n \in Asked(k) : IsPort(n)
               PROVE  config[k] \in Asked(k) \cup {Default[k]}
    BY DEF UnaskedPortWasNoPort
  <1>1. PortsConvert /\ k \in Keys
    BY DEF ConfigIInv, Keys
  <1>2. Converted[k] \in Asked(k) \cup {Default[k]}
    <2>1. CASE k \in DOMAIN options
      BY <1>1, <2>1, ConvertedPorts, PortsStay
    <2>2. CASE k \notin DOMAIN options
      BY <1>1, <2>2 DEF Converted
    <2> QED BY <2>1, <2>2
  <1>3. FileLoads => InFile[k] \in Asked(k)
    BY FilePorts, PortsStay
  <1> QED BY <1>1, <1>2, <1>3, WhereFrom

LEMMA WholePrecedence ==
  ASSUME ConfigIInv
  PROVE  PrecedenceKeptWhenComplete
  <1> SUFFICES ASSUME IsConfigured,
                      file = <<>> \/ FileLoads,
                      \A k \in Ports : \A n \in Asked(k) : IsPort(n),
                      \A k \in DOMAIN options \cap Ports : Stoi[options[k]] # Default[k],
                      \A k \in DOMAIN options \cap Plain : options[k] # Default[k],
                      NEW k \in Keys
               PROVE  config[k] =
                        CASE k \in DOMAIN options ->
                               IF k \in Ports THEN Stoi[options[k]] ELSE options[k]
                          [] k \in DOMAIN file \ DOMAIN options ->
                               IF k \in Ports THEN JsonNumber[file[k]] ELSE file[k]
                          [] OTHER -> Default[k]
    BY DEF PrecedenceKeptWhenComplete
  <1>1. PortsConvert
    BY DEF ConfigIInv
  <1>2. CASE k \in DOMAIN options
    <2>1. Converted[k] = IF k \in Ports THEN Stoi[options[k]] ELSE options[k]
      <3>1. CASE k \in Ports
        BY <1>1, <1>2, <3>1, ConvertedPorts, PortsStay
      <3>2. CASE k \notin Ports
        BY <1>2, <3>2 DEF Converted
      <3> QED BY <3>1, <3>2
    <2>2. Converted[k] # Default[k]
      BY <1>2, <2>1 DEF Keys
    <2> QED BY <1>2, <2>1, <2>2, WhereFrom
  <1>3. CASE k \notin DOMAIN options /\ FileLoads
    <2>1. Converted[k] = Default[k] /\ k \in DOMAIN file
      BY <1>3 DEF Converted, FileLoads
    <2>2. InFile[k] = IF k \in Ports THEN JsonNumber[file[k]] ELSE file[k]
      <3>1. CASE k \in Ports
        BY <1>3, <3>1, FilePorts, PortsStay
      <3>2. CASE k \notin Ports
        BY <3>2 DEF InFile
      <3> QED BY <3>1, <3>2
    <2> QED BY <1>3, <2>1, <2>2, WhereFrom
  <1>4. CASE k \notin DOMAIN options /\ ~FileLoads
    <2>1. Converted[k] = Default[k]
      BY <1>4 DEF Converted
    <2>2. k \notin DOMAIN file
      BY <1>4
    <2> QED BY <1>4, <2>1, <2>2, WhereFrom
  <1> QED BY <1>2, <1>3, <1>4

\* The daemon uses no port nobody asked for, unless it was given a number that is no
\* port, whatever the numbers are and however they are written.
THEOREM AskedPorts == ProcessSpec => []UnaskedPortWasNoPort
  BY ProcessInvariance, NoUnaskedPort, PTL

\* The precedence README.md promises holds for a complete file and a command line
\* that asks for no default, for any keys.
THEOREM Precedence == ProcessSpec => []PrecedenceKeptWhenComplete
  BY ProcessInvariance, WholePrecedence, PTL

\* With any configuration, and whenever a signal comes, nothing outlives
\* Daemon::run().
THEOREM ProcessNothingOutlives == ProcessSpec => []NothingOutlivesRun
  BY NothingLeft, ProcessInvariance, PTL

\* With any configuration, a stop function somebody can take belongs to a server that
\* exists.
THEOREM ProcessRegisteredAlive == ProcessSpec => []RegisteredIsAlive
  BY RegisteredWhileRunning, ProcessInvariance, PTL

\* A process, which may end before it has a daemon, reports success of run() only
\* when run() was asked to stop.
THEOREM ProcessSuccessAskedFor == ProcessSpec => []SuccessWasAskedFor
  BY EndsAskedOrFailed, ProcessInvariance, PTL
=============================================================================
