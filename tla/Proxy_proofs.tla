----------------------------- MODULE Proxy_proofs -----------------------------
(***************************************************************************)
(* The invariant of Proxy, for every number of lost connections and failed *)
(* calls, and the safety properties of the bridge that follow from it.     *)
(***************************************************************************)
EXTENDS Proxy, TLAPS

Has(c, h) == \E n \in DOMAIN c : c[n] = h

Once(c) == \A m, n \in DOMAIN c : c[m] = c[n] => m = n

-----------------------------------------------------------------------------
(* Lists of handlers.                                                      *)

LEMMA AppendFacts ==
  ASSUME NEW c \in Seq(Handlers), NEW h \in Handlers
  PROVE  /\ Append(c, h) \in Seq(Handlers)
         /\ \A k : Has(Append(c, h), k) <=> Has(c, k) \/ k = h
         /\ Once(c) /\ ~Has(c, h) => Once(Append(c, h))
  <1> DEFINE d == Append(c, h)
  <1>1. /\ d \in Seq(Handlers)
        /\ Len(d) = Len(c) + 1
        /\ d[Len(c) + 1] = h
        /\ \A n \in 1..Len(c) : d[n] = c[n]
    OBVIOUS
  <1>2. /\ DOMAIN c = 1..Len(c)
        /\ DOMAIN d = 1..(Len(c) + 1)
        /\ Len(c) \in Nat
    BY <1>1
  <1>3. \A k : Has(d, k) <=> Has(c, k) \/ k = h
    BY <1>1, <1>2 DEF Has
  <1>4. Once(c) /\ ~Has(c, h) => Once(d)
    BY <1>1, <1>2 DEF Has, Once
  <1> QED BY <1>1, <1>3, <1>4

LEMMA EmptyFacts == <<>> \in Seq(Handlers) /\ Once(<<>>) /\ \A k : ~Has(<<>>, k)
  BY DEF Has, Once

LEMMA TailFacts ==
  ASSUME NEW c \in Seq(Handlers), c # <<>>
  PROVE  /\ Head(c) \in Handlers
         /\ Tail(c) \in Seq(Handlers)
         /\ \A k : Has(Tail(c), k) => Has(c, k)
         /\ Has(c, Head(c))
         /\ Len(c) # 1 => Tail(c) # <<>>
  <1>1. /\ Len(c) \in Nat \ {0}
        /\ DOMAIN c = 1..Len(c)
        /\ \A n \in 1..Len(c) : c[n] \in Handlers
        /\ Head(c) = c[1]
    OBVIOUS
  <1>2. /\ Tail(c) \in Seq(Handlers)
        /\ Len(Tail(c)) = Len(c) - 1
        /\ \A n \in 1..(Len(c) - 1) : Tail(c)[n] = c[n + 1]
        /\ DOMAIN Tail(c) = 1..(Len(c) - 1)
    BY <1>1
  <1>3. \A k : Has(Tail(c), k) => Has(c, k)
    BY <1>1, <1>2 DEF Has
  <1>4. Has(c, Head(c))
    BY <1>1 DEF Has
  <1>5. ASSUME Len(c) # 1 PROVE Tail(c) # <<>>
    <2>1. Len(Tail(c)) # 0
      BY <1>1, <1>2, <1>5
    <2>2. Len(<<>>) = 0
      OBVIOUS
    <2> QED BY <2>1, <2>2, Zenon
  <1> QED BY <1>1, <1>2, <1>3, <1>4, <1>5

\* Registering, clearing and leaving alone, in the terms of the invariant.
LEMMA AddFacts ==
  ASSUME TypeOK, NEW s \in Sides, NEW h \in Handlers, Add(s, h)
  PROVE  /\ callbacks' \in [Sides -> Seq(Handlers)]
         /\ \A t \in Sides : \A k :
              Registered(t, k)' <=> Registered(t, k) \/ (t = s /\ k = h)
         /\ HandlersRegisteredOnce /\ ~Registered(s, h) => HandlersRegisteredOnce'
         /\ \A t \in Sides \ {s} : callbacks'[t] = callbacks[t]
  <1> USE DEF TypeOK, Add
  <1>1. callbacks \in [Sides -> Seq(Handlers)]
    OBVIOUS
  <1>2. /\ Append(callbacks[s], h) \in Seq(Handlers)
        /\ \A k : Has(Append(callbacks[s], h), k) <=> Has(callbacks[s], k) \/ k = h
        /\ Once(callbacks[s]) /\ ~Has(callbacks[s], h) => Once(Append(callbacks[s], h))
    BY <1>1, AppendFacts
  <1>3. /\ callbacks' \in [Sides -> Seq(Handlers)]
        /\ callbacks'[s] = Append(callbacks[s], h)
        /\ \A t \in Sides \ {s} : callbacks'[t] = callbacks[t]
    BY <1>1, <1>2
  <1>4. /\ \A t \in Sides : \A k : Registered(t, k) <=> Has(callbacks[t], k)
        /\ \A t \in Sides : \A k : Registered(t, k)' <=> Has(callbacks'[t], k)
    BY DEF Registered, Has
  <1>5. /\ HandlersRegisteredOnce <=> \A t \in Sides : Once(callbacks[t])
        /\ HandlersRegisteredOnce' <=> \A t \in Sides : Once(callbacks'[t])
    BY DEF HandlersRegisteredOnce, Once
  <1>6. \A t \in Sides : \A k :
          Registered(t, k)' <=> Registered(t, k) \/ (t = s /\ k = h)
    BY <1>2, <1>3, <1>4, Zenon
  <1>7. HandlersRegisteredOnce /\ ~Registered(s, h) => HandlersRegisteredOnce'
    BY <1>2, <1>3, <1>4, <1>5, Zenon
  <1> QED BY <1>3, <1>6, <1>7

LEMMA ClearFacts ==
  ASSUME TypeOK, NEW s \in Sides, callbacks' = [callbacks EXCEPT ![s] = <<>>]
  PROVE  /\ callbacks' \in [Sides -> Seq(Handlers)]
         /\ callbacks'[s] = <<>>
         /\ \A t \in Sides : \A k : Registered(t, k)' <=> Registered(t, k) /\ t # s
         /\ HandlersRegisteredOnce => HandlersRegisteredOnce'
         /\ \A t \in Sides \ {s} : callbacks'[t] = callbacks[t]
  <1>1. callbacks \in [Sides -> Seq(Handlers)]
    BY DEF TypeOK
  <1>2. /\ callbacks' \in [Sides -> Seq(Handlers)]
        /\ callbacks'[s] = <<>>
        /\ \A t \in Sides \ {s} : callbacks'[t] = callbacks[t]
    BY <1>1, EmptyFacts
  <1>3. /\ \A t \in Sides : \A k : Registered(t, k) <=> Has(callbacks[t], k)
        /\ \A t \in Sides : \A k : Registered(t, k)' <=> Has(callbacks'[t], k)
    BY DEF Registered, Has
  <1>4. /\ HandlersRegisteredOnce <=> \A t \in Sides : Once(callbacks[t])
        /\ HandlersRegisteredOnce' <=> \A t \in Sides : Once(callbacks'[t])
    BY DEF HandlersRegisteredOnce, Once
  <1>5. \A t \in Sides : \A k : Registered(t, k)' <=> Registered(t, k) /\ t # s
    BY <1>2, <1>3, EmptyFacts, Zenon
  <1>6. HandlersRegisteredOnce => HandlersRegisteredOnce'
    BY <1>2, <1>4, EmptyFacts, Zenon
  <1> QED BY <1>2, <1>5, <1>6

LEMMA KeepFacts ==
  ASSUME UNCHANGED callbacks
  PROVE  /\ \A t, k : Registered(t, k)' <=> Registered(t, k)
         /\ HandlersRegisteredOnce' <=> HandlersRegisteredOnce
  BY DEF Registered, HandlersRegisteredOnce

-----------------------------------------------------------------------------

LEMMA InitIInv == Init => IInv
  <1> SUFFICES ASSUME Init PROVE IInv
    OBVIOUS
  <1>1. \A s \in Sides : \A h : ~Registered(s, h)
    BY DEF Init, Registered
  <1>2. TypeOK
    <2>1. callbacks \in [Sides -> Seq(Handlers)] /\ left \in [Sides -> Seq(Handlers)]
      BY EmptyFacts DEF Init
    <2>2. drops \in 0..MaxDrops /\ faults \in 0..MaxFaults
      BY BoundsAssumption DEF Init
    <2>3. /\ DOMAIN entries = Sides /\ \A s \in Sides : entries[s] = {}
          /\ DOMAIN session = Sides /\ \A s \in Sides : session[s] = {}
      BY DEF Init
    <2>4. /\ at \in [Sides -> {"idle", "copied", "running", "ended"} \cup SetupPhases]
          /\ at["local"] \notin {"ended"} \cup SetupPhases
      BY DEF Init, SetupPhases, Sides
    <2> QED BY <2>1, <2>2, <2>3, <2>4 DEF Init, TypeOK, StartPhases
  <1>3. ThreadsInOrder
    BY DEF Init, ThreadsInOrder, StopPhases, Sides
  <1>4. HandlersFollowSetup /\ RecorderFollowsEndpoint
    BY <1>1 DEF Init, HandlersFollowSetup, RecorderFollowsEndpoint, SetupPhases, Sides,
                Attaching
  <1>5. HandlersRegisteredOnce /\ AttachedIsRecording /\ BadAccessNeedsFailedSetup
    BY <1>1 DEF Init, HandlersRegisteredOnce, AttachedIsRecording, Alive, Sides,
                BadAccessNeedsFailedSetup
  <1>6. PointersAreLive
    BY <1>1 DEF Init, PointersAreLive, Sides
  <1> QED BY <1>2, <1>3, <1>4, <1>5, <1>6 DEF IInv

\* A step that dooms the process changes only its fate.
LEMMA DoomedStep ==
  ASSUME IInv, NEW what \in {"null", "dangling", "torn", "abort"}, Doomed(what),
         \/ faults > 0
         \/ pc \in StopPhases
         \/ what = "torn" /\ pc = "settingInvoker"
  PROVE  IInv'
  <1> USE DEF IInv, Doomed, endpoints, clients, threads, recorder
  <1>1. TypeOK'
    BY DEF TypeOK
  <1>2. ThreadsInOrder'
    BY DEF ThreadsInOrder
  <1>3. HandlersFollowSetup' /\ HandlersRegisteredOnce'
    BY KeepFacts DEF HandlersFollowSetup, Bridged, Adding
  <1>6. RecorderFollowsEndpoint' /\ AttachedIsRecording'
    BY KeepFacts DEF RecorderFollowsEndpoint, AttachedIsRecording, Attaching
  <1>4. PointersAreLive'
    BY KeepFacts DEF PointersAreLive
  <1>5. BadAccessNeedsFailedSetup'
    BY DEF BadAccessNeedsFailedSetup, Alive
  <1> QED BY <1>1, <1>2, <1>3, <1>4, <1>5, <1>6

-----------------------------------------------------------------------------
(* The thread of Daemon::run.                                              *)

\* While the daemon starts, the callback it sets last does not run.
LEMMA NotBoth ==
  ASSUME IInv, pc \in StartPhases
  PROVE  at["cloud"] # "addingRecord" /\ \A s \in Sides : ~stopped[s]
  <1>1. pc \notin StopPhases
    BY DEF StartPhases, StopPhases
  <1> QED BY <1>1 DEF IInv, ThreadsInOrder, RecorderFollowsEndpoint, Sides

\* Steps that register and clear nothing.
LEMMA StartSteps ==
  ASSUME IInv, Alive,
         \/ StartLocal \/ StartLocalFails \/ StartCloud \/ ConstructRecorder
         \/ SetOnCloudConnected \/ SetInvoker \/ RequestStop
  PROVE  IInv'
  <1> USE DEF IInv, StartLocal, StartLocalFails, StartCloud, ConstructRecorder,
              SetOnCloudConnected, SetInvoker, RequestStop, Goto, Alive,
              endpoints, clients, threads, recorder
  <1>0. UNCHANGED callbacks
    OBVIOUS
  <1>1. TypeOK'
    <2>1. CASE StartLocal
      BY <2>1 DEF TypeOK, StartPhases, Sides
    <2>2. CASE ~StartLocal
      BY <2>2 DEF TypeOK, StartPhases, StopPhases, Sides
    <2> QED BY <2>1, <2>2
  <1>2. ThreadsInOrder'
    BY DEF ThreadsInOrder, TypeOK, StartPhases, StopPhases, Sides
  <1>3. HandlersFollowSetup' /\ HandlersRegisteredOnce'
    BY <1>0, KeepFacts DEF HandlersFollowSetup, Bridged, Adding, ThreadsInOrder, TypeOK, Sides
  <1>4. RecorderFollowsEndpoint' /\ AttachedIsRecording'
    <2>1. CASE RequestStop
      BY <1>0, <2>1, KeepFacts DEF RecorderFollowsEndpoint, AttachedIsRecording, Attaching
    <2>2. CASE ~RequestStop
      <3>1. pc \in StartPhases
        BY <2>2 DEF StartPhases
      <3>2. at["cloud"] # "addingRecord" /\ ~stopped["cloud"] /\ ~Attaching
        BY <2>2, <3>1, NotBoth DEF Sides, Attaching
      <3>3. ~Attaching' /\ endpoint'["cloud"] = endpoint["cloud"]
        BY <2>2, <3>2 DEF Attaching, TypeOK, Sides
      <3>4. CASE ConstructRecorder
        BY <1>0, <3>2, <3>3, <3>4, KeepFacts
           DEF RecorderFollowsEndpoint, AttachedIsRecording, Attaching
      <3>5. CASE ~ConstructRecorder
        BY <1>0, <2>2, <3>2, <3>3, <3>5, KeepFacts
           DEF RecorderFollowsEndpoint, AttachedIsRecording
      <3> QED BY <3>4, <3>5
    <2> QED BY <2>1, <2>2
  <1>5. PointersAreLive'
    <2>1. CASE StartLocal
      <3>1. /\ endpoint'["local"] = 1 /\ endpoint'["cloud"] = endpoint["cloud"]
            /\ entries'["cloud"] = entries["cloud"]
            /\ \A e \in entries'["local"] : e[2] = 1
        BY <2>1 DEF TypeOK, Sides
      <3>2. pc \notin StopPhases
        BY <2>1 DEF StopPhases
      <3> QED BY <1>0, <2>1, <3>1, <3>2, KeepFacts DEF PointersAreLive, Sides, Opposite
    <2>2. CASE ~StartLocal
      BY <1>0, <2>2, KeepFacts DEF PointersAreLive, StopPhases
    <2> QED BY <2>1, <2>2
  <1>6. BadAccessNeedsFailedSetup'
    BY DEF BadAccessNeedsFailedSetup
  <1> QED BY <1>1, <1>2, <1>3, <1>4, <1>5, <1>6

LEMMA StopSteps ==
  ASSUME IInv, Alive,
         CheckCloud \/ Disconnect \/ JoinLocal \/ JoinCloud \/ Reset
  PROVE  IInv'
  <1> USE DEF IInv, CheckCloud, Disconnect, JoinLocal, JoinCloud, Join, Reset, Goto,
              Alive, endpoints, clients, threads, recorder
  <1>0. UNCHANGED callbacks
    OBVIOUS
  <1>1. TypeOK'
    <2>1. CASE CheckCloud
      BY <2>1 DEF TypeOK, StopPhases
    <2>2. CASE Disconnect
      BY <2>2 DEF TypeOK, StopPhases
    <2>3. CASE JoinLocal \/ JoinCloud
      BY <2>3 DEF TypeOK, StopPhases
    <2>4. CASE Reset
      BY <2>4 DEF TypeOK, StopPhases
    <2> QED BY <2>1, <2>2, <2>3, <2>4
  <1>2. ThreadsInOrder'
    BY DEF ThreadsInOrder, TypeOK, StartPhases, StopPhases, Sides
  <1>3. HandlersFollowSetup' /\ HandlersRegisteredOnce'
    <2>1. CASE Reset
      <3>1. stopped["local"] /\ at["cloud"] \in {"idle", "ended"}
        BY <2>1 DEF ThreadsInOrder, StopPhases
      <3> QED BY <1>0, <2>1, <3>1, KeepFacts
              DEF HandlersFollowSetup, Bridged, Adding, TypeOK, Sides, SetupPhases
    <2>2. CASE CheckCloud \/ Disconnect \/ JoinLocal \/ JoinCloud
      BY <1>0, <2>2, KeepFacts DEF HandlersFollowSetup, Bridged, Adding, TypeOK, Sides
    <2> QED BY <2>1, <2>2
  <1>4. RecorderFollowsEndpoint' /\ AttachedIsRecording'
    <2>1. CASE Reset
      BY <1>0, <2>1, KeepFacts
         DEF RecorderFollowsEndpoint, AttachedIsRecording, Attaching, TypeOK, Sides,
             ThreadsInOrder
    <2>2. CASE CheckCloud \/ Disconnect \/ JoinLocal \/ JoinCloud
      BY <1>0, <2>2, KeepFacts
         DEF RecorderFollowsEndpoint, AttachedIsRecording, Attaching
    <2> QED BY <2>1, <2>2
  <1>5. PointersAreLive'
    BY DEF PointersAreLive, StopPhases
  <1>6. BadAccessNeedsFailedSetup'
    BY DEF BadAccessNeedsFailedSetup
  <1> QED BY <1>1, <1>2, <1>3, <1>4, <1>5, <1>6

LEMMA AttachLocalStep ==
  ASSUME IInv, Alive, AttachLocal
  PROVE  IInv'
  <1> USE DEF IInv, AttachLocal, Goto, Alive, clients, threads, recorder
  <1>0. /\ callbacks' \in [Sides -> Seq(Handlers)]
        /\ \A t \in Sides : \A k :
             Registered(t, k)' <=> Registered(t, k) \/ (t = "local" /\ k = "record")
        /\ HandlersRegisteredOnce'
        /\ callbacks'["cloud"] = callbacks["cloud"]
    BY AddFacts DEF Sides, Handlers, HandlersFollowSetup
  <1>1. TypeOK'
    BY <1>0 DEF TypeOK, StartPhases
  <1>2. ThreadsInOrder'
    BY DEF ThreadsInOrder, StartPhases, StopPhases
  <1>3. HandlersFollowSetup'
    BY <1>0 DEF HandlersFollowSetup, Bridged, Adding, ThreadsInOrder, StopPhases, Sides
  <1>4. RecorderFollowsEndpoint' /\ AttachedIsRecording'
    BY <1>0 DEF RecorderFollowsEndpoint, AttachedIsRecording, Attaching, Sides
  <1>5. PointersAreLive'
    BY <1>0 DEF PointersAreLive, StopPhases, Opposite
  <1>6. BadAccessNeedsFailedSetup'
    BY DEF BadAccessNeedsFailedSetup
  <1> QED BY <1>0, <1>1, <1>2, <1>3, <1>4, <1>5, <1>6

\* The captured endpoint is not the one there is: a setup has failed.
LEMMA StaleCapture ==
  ASSUME IInv, captured \notin {0, endpoint["cloud"]}
  PROVE  faults > 0 \/ pc \in StopPhases
  BY DEF IInv, PointersAreLive

\* The flag: nothing of this endpoint is registered when it was not set.
LEMMA FlagFacts ==
  ASSUME IInv, ~NothingToAttach
  PROVE  captured # 0 /\ ~attached
         /\ (captured = endpoint["cloud"] => ~Registered("cloud", "record"))
  BY DEF IInv, NothingToAttach, RecorderFollowsEndpoint

LEMMA AttachCloudStep ==
  ASSUME IInv, Alive, AttachCloud
  PROVE  IInv'
  <1> USE DEF IInv, AttachCloud, Attach, Goto, Alive, endpoints, clients, threads, recorder
  <1>1. TypeOK'
    BY DEF TypeOK, StartPhases
  <1>2. ThreadsInOrder'
    BY DEF ThreadsInOrder, StartPhases, StopPhases
  <1>3. HandlersFollowSetup' /\ HandlersRegisteredOnce'
    BY KeepFacts DEF HandlersFollowSetup, Bridged, Adding
  <1>4. RecorderFollowsEndpoint' /\ AttachedIsRecording'
    <2>1. at["cloud"] # "addingRecord"
      BY NotBoth DEF StartPhases
    <2>2. CASE NothingToAttach
      BY <2>2, KeepFacts DEF RecorderFollowsEndpoint, AttachedIsRecording, Attaching
    <2>3. CASE ~NothingToAttach
      BY <2>1, <2>3, KeepFacts, FlagFacts
         DEF RecorderFollowsEndpoint, AttachedIsRecording, Attaching
    <2> QED BY <2>2, <2>3
  <1>5. PointersAreLive' /\ BadAccessNeedsFailedSetup'
    BY KeepFacts DEF PointersAreLive, BadAccessNeedsFailedSetup, StopPhases
  <1> QED BY <1>1, <1>2, <1>3, <1>4, <1>5

\* The handlers of the recorder at the endpoint it has captured, by either thread.
LEMMA RecordStep ==
  ASSUME IInv, Alive, Attaching, captured = endpoint["cloud"],
         AddTested("cloud", "record"),
         UNCHANGED <<endpoint, made, stopped, clients, left, recorder, drops, faults,
                     fate>>,
         \/ pc = "recordingCloud" /\ pc' = "settingCallback" /\ UNCHANGED at
         \/ UNCHANGED pc /\ at["cloud"] = "addingRecord" /\ Move("cloud", "idle")
  PROVE  IInv'
  <1> USE DEF IInv, Alive, Move, clients, recorder
  <1>0. /\ ~Registered("cloud", "record")
        /\ attached /\ captured # 0
        /\ stopped["cloud"] => ~Registered("cloud", "bridge")
        /\ at["cloud"] = "addingRecord" => pc \notin StartPhases
    <2>1. pc = "recordingCloud" => pc \in StartPhases
      BY DEF StartPhases
    <2>2. pc \in StartPhases => ~stopped["cloud"]
      BY NotBoth DEF Sides
    <2>3. stopped["cloud"] => Adding("cloud")
      BY <2>1, <2>2 DEF Attaching, Adding
    <2> QED BY <2>1, <2>3, NotBoth
            DEF RecorderFollowsEndpoint, HandlersFollowSetup, Attaching, Sides, Handlers
  <1>1. /\ callbacks' \in [Sides -> Seq(Handlers)]
        /\ HandlersRegisteredOnce'
        /\ \A t \in Sides : \A k : <<t, k>> # <<"cloud", "record">>
             => (Registered(t, k)' <=> Registered(t, k))
        /\ ~stopped["cloud"] => Registered("cloud", "record")'
        /\ callbacks'["local"] = callbacks["local"]
    <2>1. CASE Add("cloud", "record")
      BY <1>0, <2>1, AddFacts DEF Sides, Handlers
    <2>2. CASE stopped["cloud"] /\ UNCHANGED callbacks
      BY <2>2, KeepFacts DEF TypeOK
    <2> QED BY <2>1, <2>2 DEF AddTested
  <1>2. TypeOK'
    <2>1. /\ at' \in [Sides -> {"idle", "copied", "running", "ended"} \cup SetupPhases]
          /\ at'["local"] = at["local"]
      BY DEF TypeOK, Sides
    <2>2. pc' \in StartPhases \cup {"running"} \cup StopPhases
      BY DEF TypeOK, StartPhases
    <2> QED BY <1>1, <2>1, <2>2 DEF TypeOK
  <1>3. ThreadsInOrder'
    BY DEF ThreadsInOrder, TypeOK, StartPhases, StopPhases, Sides
  <1>4. HandlersFollowSetup'
    <2>1. \/ at'["cloud"] = at["cloud"]
          \/ at["cloud"] = "addingRecord" /\ at'["cloud"] = "idle"
      BY DEF TypeOK, Sides
    <2>2. \A t \in Sides : Registered(t, "bridge")' <=> Registered(t, "bridge")
      BY <1>1
    <2>3. Registered("local", "record")' <=> Registered("local", "record")
      BY <1>1 DEF Sides
    <2>4. \A t \in Sides : \A h \in Handlers : stopped[t] /\ Registered(t, h)'
            => ~Adding(t)' /\ \A k \in Handlers : Registered(t, k)' => k = h
      <3>1. CASE pc = "recordingCloud"
        BY <3>1, NotBoth DEF StartPhases
      <3>2. CASE at["cloud"] = "addingRecord" /\ at'["cloud"] = "idle"
        BY <1>0, <1>1, <3>2 DEF HandlersFollowSetup, Adding, Sides, Handlers
      <3>3. \/ pc = "recordingCloud"
            \/ at["cloud"] = "addingRecord" /\ at'["cloud"] = "idle"
        BY DEF TypeOK, Sides
      <3> QED BY <3>1, <3>2, <3>3
    <2>5. \A t \in Sides : Bridged(t)' <=> Bridged(t)
      BY <2>2 DEF Bridged
    <2>6. pc' \in {"starting", "startingCloud", "constructing", "attachingLocal"}
            => pc' = pc
      OBVIOUS
    <2> QED BY <2>1, <2>2, <2>3, <2>4, <2>5, <2>6
            DEF HandlersFollowSetup, SetupPhases, Sides
  <1>5. RecorderFollowsEndpoint' /\ AttachedIsRecording'
    <2>1. ~Attaching'
      BY <1>0 DEF Attaching, TypeOK, Sides, StartPhases
    <2> QED BY <1>0, <1>1, <2>1
            DEF RecorderFollowsEndpoint, AttachedIsRecording, Attaching
  <1>6. PointersAreLive'
    BY <1>1 DEF PointersAreLive, StopPhases, Sides
  <1>7. BadAccessNeedsFailedSetup'
    BY DEF BadAccessNeedsFailedSetup
  <1> QED BY <1>1, <1>2, <1>3, <1>4, <1>5, <1>6, <1>7

LEMMA RecordCloudStep ==
  ASSUME IInv, Alive, RecordCloud
  PROVE  IInv'
  <1>1. Attaching
    BY DEF RecordCloud, Attaching
  <1>2. CASE /\ captured = endpoint["cloud"]
             /\ Goto("settingCallback")
             /\ AddTested("cloud", "record")
             /\ UNCHANGED <<endpoint, made, stopped, clients, threads, recorder>>
    BY <1>1, <1>2, RecordStep DEF RecordCloud, Goto, threads
  <1>3. CASE captured # endpoint["cloud"] /\ Doomed("dangling")
    BY <1>1, <1>3, StaleCapture, DoomedStep DEF IInv, RecorderFollowsEndpoint
  <1> QED BY <1>2, <1>3 DEF RecordCloud

LEMMA AddRecordStep ==
  ASSUME IInv, Alive, AddRecord
  PROVE  IInv'
  <1>1. Attaching /\ captured = endpoint["cloud"]
    BY DEF AddRecord, SetupStep, Attaching, IInv, RecorderFollowsEndpoint
  <1> QED BY <1>1, RecordStep DEF AddRecord, SetupStep

LEMMA StopEndpointStep ==
  ASSUME IInv, Alive, StopLocal \/ StopCloud
  PROVE  IInv'
  <1>1. ASSUME NEW s \in Sides, StopEndpoint(s),
               UNCHANGED <<drops, faults, fate>>,
               \/ s = "local" /\ pc = "stopping" /\ pc' = "checking"
               \/ s = "cloud" /\ pc = "stoppingCloud" /\ pc' = "disconnecting"
        PROVE  IInv'
    <2> USE <1>1 DEF IInv, StopEndpoint, Alive, clients, threads, recorder
    <2>0. /\ callbacks' \in [Sides -> Seq(Handlers)]
          /\ callbacks'[s] = <<>>
          /\ \A t \in Sides : \A k : Registered(t, k)' <=> Registered(t, k) /\ t # s
          /\ HandlersRegisteredOnce'
          /\ \A t \in Sides \ {s} : callbacks'[t] = callbacks[t]
      BY ClearFacts
    <2>1. TypeOK'
      BY <2>0 DEF TypeOK, StopPhases, Sides
    <2>2. ThreadsInOrder'
      BY DEF ThreadsInOrder, TypeOK, StartPhases, StopPhases, Sides
    <2>3. HandlersFollowSetup'
      BY <2>0 DEF HandlersFollowSetup, Bridged, Adding, TypeOK, Sides
    <2>4. RecorderFollowsEndpoint' /\ AttachedIsRecording'
      BY <2>0 DEF RecorderFollowsEndpoint, AttachedIsRecording, Attaching, TypeOK, Sides
    <2>5. PointersAreLive' /\ BadAccessNeedsFailedSetup'
      BY DEF PointersAreLive, BadAccessNeedsFailedSetup, StopPhases
    <2> QED BY <2>0, <2>1, <2>2, <2>3, <2>4, <2>5
  <1>2. CASE StopLocal
    BY <1>1, <1>2 DEF StopLocal, Goto, Sides
  <1>3. CASE StopCloud
    BY <1>1, <1>3, DoomedStep DEF StopCloud, Goto, Sides, StopPhases
  <1> QED BY <1>2, <1>3

-----------------------------------------------------------------------------
(* The connect callback.                                                   *)

LEMMA CreateStep ==
  ASSUME IInv, Alive, OnConnectAgain \/ CreateEndpoint
  PROVE  IInv'
  <1> USE DEF IInv, Alive, SetupStep, Move, clients, recorder, endpoints
  <1>1. CASE OnConnectAgain
    <2> USE <1>1 DEF OnConnectAgain
    <2>1. TypeOK' /\ ThreadsInOrder'
      BY DEF TypeOK, ThreadsInOrder, SetupPhases, Sides
    <2>2. HandlersFollowSetup' /\ HandlersRegisteredOnce'
      BY KeepFacts DEF HandlersFollowSetup, Bridged, Adding, SetupPhases, TypeOK, Sides
    <2>3. RecorderFollowsEndpoint' /\ AttachedIsRecording'
      BY KeepFacts DEF RecorderFollowsEndpoint, AttachedIsRecording, Attaching
    <2>4. PointersAreLive' /\ BadAccessNeedsFailedSetup'
      BY KeepFacts DEF PointersAreLive, BadAccessNeedsFailedSetup
    <2> QED BY <2>1, <2>2, <2>3, <2>4
  <1>2. CASE CreateEndpoint
    <2> USE <1>2 DEF CreateEndpoint
    <2>0. /\ callbacks' \in [Sides -> Seq(Handlers)]
          /\ callbacks'["cloud"] = <<>>
          /\ \A t \in Sides : \A k : Registered(t, k)' <=> Registered(t, k) /\ t # "cloud"
          /\ HandlersRegisteredOnce'
          /\ callbacks'["local"] = callbacks["local"]
      BY ClearFacts DEF Sides
    <2>1. TypeOK'
      BY <2>0 DEF TypeOK, SetupPhases, Sides
    <2>2. ThreadsInOrder'
      BY DEF ThreadsInOrder, TypeOK, StartPhases, StopPhases, Sides
    <2>3. HandlersFollowSetup'
      BY <2>0 DEF HandlersFollowSetup, Bridged, Adding, TypeOK, SetupPhases, Sides
    <2>4. RecorderFollowsEndpoint' /\ AttachedIsRecording'
      BY <2>0 DEF RecorderFollowsEndpoint, AttachedIsRecording, Attaching, TypeOK, Sides
    <2>5. PointersAreLive'
      BY <2>0 DEF PointersAreLive, TypeOK, Sides, Opposite
    <2>6. BadAccessNeedsFailedSetup'
      BY DEF BadAccessNeedsFailedSetup
    <2> QED BY <2>0, <2>1, <2>2, <2>3, <2>4, <2>5, <2>6
  <1> QED BY <1>1, <1>2

LEMMA SubscribeOneStep ==
  ASSUME IInv, Alive, SubscribeOne
  PROVE  IInv'
  <1> USE DEF IInv, Alive, SetupStep, SubscribeOne, Move, recorder, endpoints
  <1>1. PICK n \in 1..4 :
          /\ entries' = [entries EXCEPT !["cloud"] =
                           @ \cup {<<Topics("cloud")[n], endpoint["cloud"]>>}]
          /\ session' = [session EXCEPT !["cloud"] =
               IF link["cloud"] = "up" THEN @ \cup {Topics("cloud")[n]} ELSE @]
          /\ at' = [at EXCEPT !["cloud"] = IF n = 4 THEN "bridging" ELSE "subscribing"]
    OBVIOUS
  <1>2. /\ Topics("cloud")[n] \in TopicSet("cloud")
        /\ endpoint["cloud"] \in Nat \ {0}
    BY DEF TopicSet, TypeOK, HandlersFollowSetup, SetupPhases, Sides
  <1>3. TypeOK'
    BY <1>1, <1>2 DEF TypeOK, SetupPhases, Sides
  <1>4. ThreadsInOrder'
    BY <1>1 DEF ThreadsInOrder, TypeOK, Sides
  <1>5. HandlersFollowSetup' /\ HandlersRegisteredOnce'
    BY <1>1, KeepFacts DEF HandlersFollowSetup, Bridged, Adding, TypeOK, SetupPhases, Sides
  <1>6. RecorderFollowsEndpoint' /\ AttachedIsRecording'
    BY KeepFacts DEF RecorderFollowsEndpoint, AttachedIsRecording, Attaching
  <1>7. PointersAreLive'
    <2>1. /\ entries'["local"] = entries["local"]
          /\ \A e \in entries'["cloud"] :
               e \in entries["cloud"] \/ e[2] = endpoint["cloud"]
      BY <1>1 DEF TypeOK, Sides
    <2> QED BY <2>1, KeepFacts DEF PointersAreLive, Sides
  <1>8. BadAccessNeedsFailedSetup'
    BY DEF BadAccessNeedsFailedSetup
  <1> QED BY <1>3, <1>4, <1>5, <1>6, <1>7, <1>8

\* A setup that is given up has registered nothing at the local endpoint, or that
\* endpoint is stopped.
LEMMA DropStep ==
  ASSUME IInv, Alive, NEW from \in SetupPhases, SetupStep(from), DropEndpoint,
         \/ UNCHANGED callbacks
         \/ \E s \in Sides : stopped[s] /\ Adding(s) /\ Add(s, "bridge"),
         stopped["local"] \/ (~Registered("local", "bridge") /\ UNCHANGED callbacks),
         \/ faults < MaxFaults /\ faults' = faults + 1
         \/ UNCHANGED faults /\ pc \in StopPhases
  PROVE  IInv'
  <1> USE DEF IInv, Alive, SetupStep, DropEndpoint, Move, clients, recorder
  <1>0. /\ callbacks' \in [Sides -> Seq(Handlers)]
        /\ HandlersRegisteredOnce'
        /\ \A t \in Sides : Registered(t, "record")' <=> Registered(t, "record")
        /\ \A t \in Sides : stopped[t] /\ Registered(t, "bridge")'
             => ~Registered(t, "record")
    <2>1. CASE UNCHANGED callbacks
      BY <2>1, KeepFacts DEF TypeOK, HandlersFollowSetup, Handlers
    <2>2. CASE \E s \in Sides : stopped[s] /\ Adding(s) /\ Add(s, "bridge")
      <3>1. PICK s \in Sides : stopped[s] /\ Adding(s) /\ Add(s, "bridge")
        BY <2>2
      <3>2. \A h \in Handlers : ~Registered(s, h)
        BY <3>1 DEF HandlersFollowSetup
      <3>3. "bridge" \in Handlers /\ "record" \in Handlers /\ "record" # "bridge"
        BY DEF Handlers
      <3>4. /\ callbacks' \in [Sides -> Seq(Handlers)]
            /\ HandlersRegisteredOnce'
            /\ \A t \in Sides : \A k :
                 Registered(t, k)' <=> Registered(t, k) \/ (t = s /\ k = "bridge")
        BY <3>1, <3>2, <3>3, AddFacts
      <3> QED BY <3>2, <3>3, <3>4 DEF HandlersFollowSetup
    <2> QED BY <2>1, <2>2
  <1>1. TypeOK'
    <2>1. faults' \in 0..MaxFaults
      BY BoundsAssumption DEF TypeOK
    <2>2. /\ at' \in [Sides -> {"idle", "copied", "running", "ended"} \cup SetupPhases]
          /\ at'["local"] = at["local"]
          /\ endpoint' \in [Sides -> Nat]
      BY DEF TypeOK, Sides
    <2> QED BY <1>0, <2>1, <2>2 DEF TypeOK
  <1>2. ThreadsInOrder'
    BY DEF ThreadsInOrder, TypeOK, SetupPhases, Sides
  <1>3. HandlersFollowSetup'
    <2>1. at'["cloud"] = "idle" /\ endpoint'["cloud"] = 0
      BY DEF TypeOK, Sides
    <2>2. stopped'["local"] \/ ~Registered("local", "bridge")'
      BY KeepFacts
    <2>3. \A t \in Sides : ~Adding(t)'
      BY <2>1 DEF Adding
    <2> QED BY <1>0, <2>1, <2>2, <2>3
            DEF HandlersFollowSetup, SetupPhases, Sides, Handlers
  <1>4. RecorderFollowsEndpoint' /\ AttachedIsRecording'
    BY <1>0 DEF RecorderFollowsEndpoint, AttachedIsRecording, Attaching, TypeOK, Sides
  <1>5. PointersAreLive' /\ BadAccessNeedsFailedSetup'
    BY DEF PointersAreLive, BadAccessNeedsFailedSetup, TypeOK
  <1> QED BY <1>0, <1>1, <1>2, <1>3, <1>4, <1>5

LEMMA SubscribeFailsStep ==
  ASSUME IInv, Alive, SubscribeFails
  PROVE  IInv'
  <1>1. /\ at["cloud"] = "subscribing"
        /\ stopped["local"] \/ ~Registered("local", "bridge")
    BY DEF SubscribeFails, SetupStep, IInv, HandlersFollowSetup
  <1>2. stopped["cloud"] => pc \in StopPhases
    BY DEF IInv, ThreadsInOrder
  <1> QED BY <1>1, <1>2, DropStep DEF SubscribeFails, SetupPhases

\* At an endpoint that is stopped the daemon stops.
LEMMA StoppedFacts ==
  ASSUME IInv, NEW s \in Sides, stopped[s]
  PROVE  stopped["local"] /\ pc \in StopPhases
  BY DEF IInv, ThreadsInOrder, Sides

\* The test, of either direction.
LEMMA BridgeStep ==
  ASSUME IInv, Alive, NEW s \in Sides,
         NEW from, NEW to,
         \/ s = "local" /\ from = "bridging" /\ to = "addingBridge"
         \/ s = "cloud" /\ from = "bridgingBack" /\ to = "addingBack",
         Bridge(s, from, to)
  PROVE  IInv'
  <1>0. from \in SetupPhases /\ to \in SetupPhases
    BY DEF SetupPhases
  <1>1. CASE stopped[s] /\ DropEndpoint
    BY <1>0, <1>1, StoppedFacts, DropStep DEF Bridge
  <1>2. CASE ~stopped[s] /\ Move("cloud", to) /\ UNCHANGED <<endpoints, clients, recorder>>
    <2> USE <1>2 DEF IInv, Alive, SetupStep, Bridge, Move, clients, recorder, endpoints
    <2>1. TypeOK'
      <3>1. /\ at' \in [Sides -> {"idle", "copied", "running", "ended"} \cup SetupPhases]
            /\ at'["local"] = at["local"]
        BY <1>0 DEF TypeOK, Sides
      <3> QED BY <3>1 DEF TypeOK
    <2>2. at["cloud"] = from /\ at'["cloud"] = to
      BY DEF TypeOK, Sides
    <2>3. ThreadsInOrder'
      BY <2>2 DEF ThreadsInOrder, TypeOK, Sides
    <2>4. HandlersFollowSetup' /\ HandlersRegisteredOnce'
      BY <2>2, KeepFacts DEF HandlersFollowSetup, Bridged, Adding, SetupPhases, Sides
    <2>5. RecorderFollowsEndpoint' /\ AttachedIsRecording'
      BY <2>2, KeepFacts DEF RecorderFollowsEndpoint, AttachedIsRecording, Attaching
    <2>6. PointersAreLive' /\ BadAccessNeedsFailedSetup'
      BY KeepFacts DEF PointersAreLive, BadAccessNeedsFailedSetup
    <2> QED BY <2>1, <2>3, <2>4, <2>5, <2>6
  <1> QED BY <1>1, <1>2 DEF Bridge, endpoints

\* The handler, which may be added after a Stop() has cleared the list.
LEMMA AddBridgeStep ==
  ASSUME IInv, Alive, NEW s \in Sides,
         NEW from, NEW to,
         \/ s = "local" /\ from = "addingBridge" /\ to = "bridgingBack"
         \/ s = "cloud" /\ from = "addingBack" /\ to = "notifying",
         AddBridge(s, from, to)
  PROVE  IInv'
  <1>0. from \in SetupPhases /\ to \in SetupPhases /\ SetupStep(from) /\ UNCHANGED faults
    BY DEF SetupPhases, AddBridge
  <1>1. Adding(s)
    BY <1>0 DEF SetupStep, Adding
  <1>2. CASE stopped[s] /\ AddTested(s, "bridge") /\ DropEndpoint
    BY <1>0, <1>1, <1>2, StoppedFacts, DropStep DEF AddTested
  <1>3. CASE /\ Add(s, "bridge")
             /\ Move("cloud", to)
             /\ UNCHANGED <<endpoint, made, stopped, clients, recorder>>
    <2> USE <1>0, <1>3 DEF IInv, Alive, SetupStep, Move, clients, recorder
    <2>1. at["cloud"] = from /\ ~Registered(s, "bridge")
      BY DEF HandlersFollowSetup
    <2>2. /\ callbacks' \in [Sides -> Seq(Handlers)]
          /\ \A t \in Sides : \A k :
               Registered(t, k)' <=> Registered(t, k) \/ (t = s /\ k = "bridge")
          /\ HandlersRegisteredOnce'
          /\ \A t \in Sides \ {s} : callbacks'[t] = callbacks[t]
      BY <2>1, AddFacts DEF Handlers
    <2>3. /\ at' \in [Sides -> {"idle", "copied", "running", "ended"} \cup SetupPhases]
          /\ at'["local"] = at["local"]
          /\ at'["cloud"] = to
      BY DEF TypeOK, Sides
    <2>4. TypeOK'
      BY <2>2, <2>3 DEF TypeOK
    <2>5. ThreadsInOrder'
      BY <2>3 DEF ThreadsInOrder, TypeOK, Sides
    <2>6. HandlersFollowSetup'
      <3>1. \A t \in Sides : \A h \in Handlers : stopped[t] /\ Registered(t, h)'
              => ~Adding(t)' /\ \A k \in Handlers : Registered(t, k)' => k = h
        BY <1>1, <2>2, <2>3 DEF HandlersFollowSetup, Adding, Sides, Handlers
      <3>2. \A t \in Sides : Registered(t, "record")' <=> Registered(t, "record")
        BY <2>2
      <3>3. \A t \in Sides :
              Registered(t, "bridge")' <=> Registered(t, "bridge") \/ t = s
        BY <2>2
      <3> QED BY <2>1, <2>3, <3>1, <3>2, <3>3
              DEF HandlersFollowSetup, Bridged, SetupPhases, Sides
    <2>7. RecorderFollowsEndpoint' /\ AttachedIsRecording'
      BY <2>1, <2>2, <2>3
         DEF RecorderFollowsEndpoint, AttachedIsRecording, Attaching, Sides
    <2>8. PointersAreLive'
      <3>1. endpoint["cloud"] # 0 /\ pc # "starting"
        BY <2>1 DEF HandlersFollowSetup, ThreadsInOrder, SetupPhases, Sides
      <3> QED BY <2>2, <3>1 DEF PointersAreLive, Sides, Opposite
    <2>9. BadAccessNeedsFailedSetup'
      BY DEF BadAccessNeedsFailedSetup
    <2> QED BY <2>2, <2>4, <2>5, <2>6, <2>7, <2>8, <2>9
  <1> QED BY <1>2, <1>3 DEF AddBridge

LEMMA NotifyStep ==
  ASSUME IInv, Alive, Notify
  PROVE  IInv'
  <1>1. CASE /\ Move("cloud", "idle")
             /\ UNCHANGED <<pc, endpoints, clients, left, recorder, drops, faults, fate>>
    <2> USE <1>1 DEF Notify, IInv, Alive, Move, endpoints, clients, recorder
    <2>1. TypeOK' /\ ThreadsInOrder'
      BY DEF TypeOK, ThreadsInOrder, SetupPhases, Sides
    <2>2. HandlersFollowSetup' /\ HandlersRegisteredOnce'
      BY KeepFacts DEF HandlersFollowSetup, Bridged, Adding, SetupPhases, TypeOK, Sides
    <2>3. RecorderFollowsEndpoint' /\ AttachedIsRecording'
      BY KeepFacts DEF RecorderFollowsEndpoint, AttachedIsRecording, Attaching
    <2>4. PointersAreLive' /\ BadAccessNeedsFailedSetup'
      BY KeepFacts DEF PointersAreLive, BadAccessNeedsFailedSetup
    <2> QED BY <2>1, <2>2, <2>3, <2>4
  <1>2. CASE notify = "torn" /\ Doomed("torn")
    BY <1>2, DoomedStep DEF IInv, ThreadsInOrder
  <1>3. CASE /\ notify = "set" /\ ~NothingToAttach /\ captured = endpoint["cloud"]
             /\ Attach
             /\ Move("cloud", IF stopped["cloud"] THEN "idle" ELSE "addingRecord")
             /\ UNCHANGED <<pc, endpoints, clients, left, drops, faults, fate>>
    <2> USE <1>3 DEF Notify, Attach, IInv, Alive, Move, endpoints, clients
    <2>1. /\ at["cloud"] = "notifying"
          /\ at'["local"] = at["local"]
          /\ at'["cloud"] = IF stopped["cloud"] THEN "idle" ELSE "addingRecord"
          /\ at' \in [Sides -> {"idle", "copied", "running", "ended"} \cup SetupPhases]
      BY DEF TypeOK, Sides, SetupPhases
    <2>2. TypeOK'
      BY <2>1 DEF TypeOK
    <2>3. ThreadsInOrder'
      BY <2>1 DEF ThreadsInOrder, TypeOK, Sides
    <2>4. HandlersFollowSetup' /\ HandlersRegisteredOnce'
      BY <2>1, KeepFacts DEF HandlersFollowSetup, Bridged, Adding, SetupPhases, Sides
    <2>5. RecorderFollowsEndpoint' /\ AttachedIsRecording'
      <3>1. captured # 0 /\ ~Registered("cloud", "record")
        BY FlagFacts
      <3>2. pc \notin StartPhases
        BY DEF ThreadsInOrder
      <3> QED BY <2>1, <3>1, <3>2, KeepFacts
              DEF RecorderFollowsEndpoint, AttachedIsRecording, Attaching, StartPhases
    <2>6. PointersAreLive' /\ BadAccessNeedsFailedSetup'
      BY KeepFacts DEF PointersAreLive, BadAccessNeedsFailedSetup
    <2> QED BY <2>2, <2>3, <2>4, <2>5, <2>6
  <1>4. CASE ~NothingToAttach /\ captured # endpoint["cloud"] /\ Doomed("dangling")
    BY <1>4, StaleCapture, DoomedStep DEF NothingToAttach
  <1> QED BY <1>1, <1>2, <1>3, <1>4 DEF Notify

-----------------------------------------------------------------------------
(* The loop threads, the brokers, and the cancelling of a thread.          *)

\* A step of a loop thread that touches no endpoint and no pointer.
LEMMA LoopStep ==
  ASSUME IInv, Alive, NEW s \in Sides,
         UNCHANGED <<pc, endpoints, entries, recorder, faults, fate>>,
         TypeOK', ThreadsInOrder',
         \/ at'["cloud"] = at["cloud"]
         \/ at'["cloud"] = "ended" /\ pc \in {"joiningLocal", "joiningCloud"}
         \/ /\ at["cloud"] \in {"idle", "copied", "running"}
            /\ at'["cloud"] \in {"idle", "copied", "running", "connected"},
         \A t \in Sides :
           Has(left'[t], "bridge") => Has(left[t], "bridge") \/ Registered(t, "bridge")
  PROVE  IInv'
  <1> USE DEF IInv, Alive, recorder, endpoints
  <1>1. HandlersFollowSetup' /\ HandlersRegisteredOnce'
    BY KeepFacts DEF HandlersFollowSetup, Bridged, Adding, SetupPhases
  <1>2. RecorderFollowsEndpoint' /\ AttachedIsRecording'
    BY KeepFacts DEF RecorderFollowsEndpoint, AttachedIsRecording, Attaching
  <1>3. PointersAreLive'
    BY KeepFacts DEF PointersAreLive, Has
  <1>4. BadAccessNeedsFailedSetup'
    BY DEF BadAccessNeedsFailedSetup
  <1> QED BY <1>1, <1>2, <1>3, <1>4

LEMMA ReceiveStep ==
  ASSUME IInv, Alive, NEW s \in Sides, Receive(s)
  PROVE  IInv'
  <1>1. PICK t \in session[s] :
          \/ /\ Listeners(s, t) = {endpoint[s]}
             /\ Move(s, "copied")
             /\ left' = [left EXCEPT ![s] = callbacks[s]]
             /\ UNCHANGED <<pc, endpoints, clients, recorder, drops, faults, fate>>
          \/ /\ \E g \in Listeners(s, t) : g # endpoint[s]
             /\ Doomed("dangling")
    BY DEF Receive
  <1>2. CASE /\ Move(s, "copied")
             /\ left' = [left EXCEPT ![s] = callbacks[s]]
             /\ UNCHANGED <<pc, endpoints, clients, recorder, drops, faults, fate>>
    <2> USE <1>2 DEF Receive, Move, endpoints, clients, recorder
    <2>1. TypeOK'
      BY DEF IInv, TypeOK, SetupPhases, Sides
    <2>2. ThreadsInOrder'
      BY DEF IInv, TypeOK, ThreadsInOrder, StopPhases, Sides
    <2>3. \A u \in Sides : Has(left'[u], "bridge") =>
            Has(left[u], "bridge") \/ Registered(u, "bridge")
      BY DEF IInv, TypeOK, Has, Registered
    <2>4. \/ at'["cloud"] = at["cloud"]
          \/ at["cloud"] = "idle" /\ at'["cloud"] = "copied"
      BY DEF IInv, TypeOK, Sides
    <2> QED BY <2>1, <2>2, <2>3, <2>4, LoopStep
  <1>3. CASE (\E g \in Listeners(s, t) : g # endpoint[s]) /\ Doomed("dangling")
    <2>1. PICK e \in entries[s] : e[2] # endpoint[s]
      BY <1>3 DEF Listeners
    <2>2. faults > 0 \/ pc \in StopPhases
      BY <2>1 DEF IInv, PointersAreLive
    <2> QED BY <1>3, <2>2, DoomedStep
  <1> QED BY <1>1, <1>2, <1>3

LEMMA DispatchStep ==
  ASSUME IInv, Alive, NEW s \in Sides, Dispatch(s)
  PROVE  IInv'
  <1> USE DEF Dispatch, Move, endpoints, clients, recorder
  <1>1. TypeOK'
    BY EmptyFacts DEF IInv, TypeOK, SetupPhases, Sides
  <1>2. ThreadsInOrder'
    BY DEF IInv, TypeOK, ThreadsInOrder, StopPhases, Sides
  <1>3. \A t \in Sides : Has(left'[t], "bridge") => Has(left[t], "bridge")
    BY EmptyFacts DEF IInv, TypeOK
  <1>4. \/ at'["cloud"] = at["cloud"]
        \/ at["cloud"] = "copied" /\ at'["cloud"] \in {"running", "idle"}
    BY DEF IInv, TypeOK, Sides
  <1> QED BY <1>1, <1>2, <1>3, <1>4, LoopStep

LEMMA RunCallbackStep ==
  ASSUME IInv, Alive, NEW s \in Sides, RunCallback(s)
  PROVE  IInv'
  <1>0. left[s] \in Seq(Handlers) /\ left[s] # <<>>
    BY DEF RunCallback, IInv, TypeOK, ThreadsInOrder
  <1>1. /\ Tail(left[s]) \in Seq(Handlers)
        /\ \A k : Has(Tail(left[s]), k) => Has(left[s], k)
        /\ Has(left[s], Head(left[s]))
        /\ Len(left[s]) # 1 => Tail(left[s]) # <<>>
    BY <1>0, TailFacts
  <1>2. CASE /\ left' = [left EXCEPT ![s] = Tail(@)]
             /\ Move(s, IF Len(left[s]) = 1 THEN "idle" ELSE "running")
             /\ UNCHANGED <<pc, endpoints, clients, recorder, drops, faults, fate>>
    <2> USE <1>2 DEF RunCallback, Move, endpoints, clients, recorder
    <2>1. TypeOK'
      BY <1>1 DEF IInv, TypeOK, SetupPhases, Sides
    <2>2. ThreadsInOrder'
      BY <1>1 DEF IInv, TypeOK, ThreadsInOrder, StopPhases, Sides
    <2>3. \A t \in Sides : Has(left'[t], "bridge") => Has(left[t], "bridge")
      BY <1>1 DEF IInv, TypeOK
    <2>4. \/ at'["cloud"] = at["cloud"]
          \/ at["cloud"] = "running" /\ at'["cloud"] \in {"running", "idle"}
      BY DEF IInv, TypeOK, Sides
    <2> QED BY <2>1, <2>2, <2>3, <2>4, LoopStep
  <1>3. CASE Head(left[s]) = "bridge" /\ endpoint[Opposite(s)] = 0 /\ Doomed("null")
    <2>1. Has(left[s], "bridge")
      BY <1>1, <1>3
    <2>2. faults > 0 \/ pc \in StopPhases
      BY <1>3, <2>1 DEF IInv, PointersAreLive, Has
    <2> QED BY <1>3, <2>2, DoomedStep
  <1> QED BY <1>2, <1>3 DEF RunCallback

LEMMA LinkStep ==
  ASSUME IInv, Alive, NEW s \in Sides, LoseLink(s) \/ Connect(s)
  PROVE  IInv'
  <1> USE DEF LoseLink, Connect, Move, endpoints, threads, recorder
  <1>1. TypeOK'
    <2>1. CASE LoseLink(s)
      BY <2>1, BoundsAssumption DEF IInv, TypeOK
    <2>2. CASE Connect(s)
      BY <2>2 DEF IInv, TypeOK, SetupPhases, Sides
    <2> QED BY <2>1, <2>2
  <1>2. ThreadsInOrder'
    BY DEF IInv, TypeOK, ThreadsInOrder, StopPhases, Sides
  <1>3. \/ at'["cloud"] = at["cloud"]
        \/ at["cloud"] = "idle" /\ at'["cloud"] = "connected"
    BY DEF IInv, TypeOK, Sides
  <1> QED BY <1>1, <1>2, <1>3, LoopStep

LEMMA CancelStep ==
  ASSUME IInv, Alive, NEW s \in Sides, NEW from \in {"joiningLocal", "joiningCloud"},
         Cancel(s, from)
  PROVE  IInv'
  <1>1. pc \in StopPhases
    BY DEF Cancel, StopPhases
  <1>2. CASE Doomed("abort")
    BY <1>1, <1>2, DoomedStep
  <1>3. CASE /\ at[s] \in SetupPhases
             /\ Move(s, "ended")
             /\ UNCHANGED <<pc, endpoints, clients, left, recorder, drops, faults, fate>>
    <2> USE <1>3 DEF Cancel, Move, endpoints, clients, recorder
    <2>0. s = "cloud"
      BY DEF IInv, TypeOK, Sides
    <2>1. TypeOK' /\ ThreadsInOrder' /\ at'["cloud"] = "ended" /\ pc = from
      BY <2>0 DEF IInv, TypeOK, ThreadsInOrder, StopPhases, Sides
    <2> QED BY <2>1, LoopStep
  <1> QED BY <1>2, <1>3 DEF Cancel

-----------------------------------------------------------------------------

LEMMA NextIInv == IInv /\ [Next]_vars => IInv'
  <1> SUFFICES ASSUME IInv, [Next]_vars PROVE IInv'
    OBVIOUS
  <1>1. CASE UNCHANGED vars
    <2> USE <1>1 DEF vars, endpoints, clients, threads, recorder, IInv
    <2>1. TypeOK' /\ ThreadsInOrder'
      BY DEF TypeOK, ThreadsInOrder
    <2>2. HandlersFollowSetup' /\ HandlersRegisteredOnce'
      BY KeepFacts DEF HandlersFollowSetup, Bridged, Adding
    <2>3. RecorderFollowsEndpoint' /\ AttachedIsRecording'
      BY KeepFacts DEF RecorderFollowsEndpoint, AttachedIsRecording, Attaching
    <2>4. PointersAreLive' /\ BadAccessNeedsFailedSetup'
      BY KeepFacts DEF PointersAreLive, BadAccessNeedsFailedSetup, Alive
    <2> QED BY <2>1, <2>2, <2>3, <2>4
  <1>2. CASE Next
    <2> USE <1>2 DEF Next
    <2>1. CASE DaemonThread
      BY <2>1, StartSteps, StopSteps, AttachLocalStep, AttachCloudStep,
             RecordCloudStep, StopEndpointStep
         DEF DaemonThread
    <2>2. CASE RequestStop
      BY <2>2, StartSteps
    <2>3. CASE CloudSetup
      BY <2>3, CreateStep, SubscribeOneStep, BridgeStep, AddBridgeStep, NotifyStep,
             AddRecordStep
         DEF CloudSetup, BridgeLocalToCloud, BridgeCloudToLocal, Sides
    <2>4. CASE SubscribeFails
      BY <2>4, SubscribeFailsStep
    <2>5. CASE \E s \in Sides : Receive(s) \/ Handle(s) \/ LoseLink(s) \/ Connect(s)
      BY <2>5, ReceiveStep, DispatchStep, RunCallbackStep, LinkStep DEF Handle
    <2>6. CASE Cancel("local", "joiningLocal") \/ Cancel("cloud", "joiningCloud")
      BY <2>6, CancelStep DEF Sides
    <2> QED BY <2>1, <2>2, <2>3, <2>4, <2>5, <2>6
  <1> QED BY <1>1, <1>2

\* The invariant of Proxy holds in every reachable state, whatever the bounds.
THEOREM Invariance == Spec => []IInv
  BY InitIInv, NextIInv, PTL DEF Spec

\* Every variable of Proxy has its type.
THEOREM TypeCorrect == Spec => []TypeOK
  <1>1. IInv => TypeOK
    BY DEF IInv
  <1> QED BY <1>1, Invariance, PTL

\* No handler is registered twice, however often the cloud is lost and found.
THEOREM RegisteredOnce == Spec => []HandlersRegisteredOnce
  <1>1. IInv => HandlersRegisteredOnce
    BY DEF IInv
  <1> QED BY <1>1, Invariance, PTL

\* No half bridge is left behind by a setup that fails or is overtaken by stop().
THEOREM BothWaysOrNone == Spec => []NeverHalfBridged
  <1>1. IInv => NeverHalfBridged
    BY DEF IInv, HandlersFollowSetup, NeverHalfBridged, Bridged, SetupPhases
  <1> QED BY <1>1, Invariance, PTL

\* The flag of the recorder is about the endpoint it has captured.
THEOREM AttachedRecords == Spec => []AttachedIsRecording
  <1>1. IInv => AttachedIsRecording
    BY DEF IInv
  <1> QED BY <1>1, Invariance, PTL

\* A pointer is bad, or the process aborts, only after a failed setup or during the
\* stop, but for the one unlocked swap at the start.
THEOREM BadAccessIsExplained == Spec => []BadAccessNeedsFailedSetup
  <1>1. IInv => BadAccessNeedsFailedSetup
    BY DEF IInv
  <1> QED BY <1>1, Invariance, PTL

-----------------------------------------------------------------------------
(* What is left when stop() has returned.                                  *)

\* stop() returns with no endpoint and no thread in a callback, and so does a start()
\* that has failed: this is what Daemon means by a gateway that does not run.
NothingOutlivesStop ==
  pc = "done" => \A s \in Sides : endpoint[s] = 0 /\ at[s] \in {"idle", "ended"}

\* After stop() has returned no thread of the bridge takes another step: no message is
\* received, no callback runs and no client connects again.
StopIsFinal == [][pc # "done"]_vars

\* Where the endpoints are gone, and where the local thread is joined.
Quiet ==
  /\ pc \in {"starting", "done"} => \A s \in Sides : endpoint[s] = 0
  /\ pc \in {"joiningCloud", "resetting", "done"} => at["local"] = "idle"

LEMMA InitQuiet == Init => Quiet
  BY DEF Init, Quiet, Sides

\* The thread in Daemon::run comes to such a place by a join or by the reset.
LEMMA DaemonQuiet ==
  ASSUME IInv, Quiet, DaemonThread \/ RequestStop
  PROVE  Quiet'
  <1>1. CASE \/ StartLocal \/ StartCloud \/ ConstructRecorder \/ AttachLocal
             \/ SetOnCloudConnected \/ SetInvoker \/ RequestStop
             \/ StopLocal \/ CheckCloud \/ Disconnect
    BY <1>1 DEF StartLocal, StartCloud, ConstructRecorder, AttachLocal,
                SetOnCloudConnected, SetInvoker, RequestStop, StopLocal, CheckCloud,
                Disconnect, Goto, Quiet
  <1>2. CASE AttachCloud \/ RecordCloud \/ StopCloud
    BY <1>2 DEF AttachCloud, RecordCloud, StopCloud, Goto, Doomed, Quiet
  <1>3. CASE StartLocalFails
    BY <1>3 DEF StartLocalFails, Goto, Quiet, IInv, ThreadsInOrder, endpoints, threads,
                Sides
  <1>4. CASE JoinLocal \/ JoinCloud
    <2>1. at["local"] # "ended"
      BY DEF IInv, TypeOK
    <2> QED BY <1>4, <2>1 DEF JoinLocal, JoinCloud, Join, Goto, Quiet, endpoints, threads
  <1>5. CASE Reset
    BY <1>5 DEF Reset, Goto, Quiet, threads
  <1> QED BY <1>1, <1>2, <1>3, <1>4, <1>5 DEF DaemonThread

\* A step of the cloud thread leaves the local one where it is.
LEMMA OtherThread ==
  ASSUME IInv, UNCHANGED at \/ \E place : Move("cloud", place)
  PROVE  at'["local"] = at["local"]
  <1>1. DOMAIN at = Sides
    BY DEF IInv, TypeOK
  <1> QED BY <1>1 DEF Move, Sides

\* The others do not move it, and have nothing to do there.
LEMMA OthersQuiet ==
  ASSUME IInv, Quiet,
         \/ CloudSetup \/ SubscribeFails
         \/ \E s \in Sides : Receive(s) \/ Handle(s) \/ LoseLink(s) \/ Connect(s)
         \/ Cancel("local", "joiningLocal") \/ Cancel("cloud", "joiningCloud")
  PROVE  Quiet' /\ pc # "done"
  <1>1. CASE CloudSetup \/ SubscribeFails
    <2>1. at["cloud"] \in SetupPhases
      BY <1>1 DEF CloudSetup, SubscribeFails, OnConnectAgain, CreateEndpoint, SubscribeOne,
                  BridgeLocalToCloud, BridgeCloudToLocal, Bridge, AddBridge, Notify,
                  AddRecord, SetupStep, SetupPhases
    <2>2. pc \notin {"starting", "done"}
      BY <2>1 DEF IInv, ThreadsInOrder, Sides, SetupPhases
    <2>3. UNCHANGED pc /\ (UNCHANGED at \/ \E place : Move("cloud", place))
      BY <1>1 DEF CloudSetup, SubscribeFails, OnConnectAgain, CreateEndpoint, SubscribeOne,
                  BridgeLocalToCloud, BridgeCloudToLocal, Bridge, AddBridge,
                  DropEndpoint, Notify, AddRecord, SetupStep, Doomed, threads
    <2>4. at'["local"] = at["local"]
      BY <2>3, OtherThread
    <2> QED BY <2>2, <2>3, <2>4 DEF Quiet
  <1>2. ASSUME NEW s \in Sides, Receive(s) \/ Handle(s)
        PROVE  Quiet' /\ pc # "done"
    <2>1. UNCHANGED <<pc, endpoint>> /\ (UNCHANGED at \/ \E place : Move(s, place))
      BY <1>2 DEF Receive, Handle, Dispatch, RunCallback, Doomed, endpoints, threads
    <2>2. s = "cloud" => at'["local"] = at["local"]
      BY <2>1, OtherThread
    <2>3. link[s] = "up" \/ at[s] \in {"copied", "running"}
      BY <1>2 DEF Receive, Handle, Dispatch, RunCallback
    <2>4. pc # "done"
      BY <2>3 DEF IInv, ThreadsInOrder, Quiet, Sides
    <2>5. s = "local" => pc \notin {"joiningCloud", "resetting"}
      BY <2>3 DEF IInv, ThreadsInOrder, Quiet, Sides
    <2> QED BY <2>1, <2>4, <2>5, <2>2 DEF Quiet, Sides
  <1>3. ASSUME NEW s \in Sides, LoseLink(s) \/ Connect(s)
        PROVE  Quiet' /\ pc # "done"
    <2>1. UNCHANGED <<pc, endpoint>> /\ (UNCHANGED at \/ \E place : Move("cloud", place))
      BY <1>3 DEF LoseLink, Connect, endpoints, threads
    <2>2. pc # "done"
      BY <1>3 DEF LoseLink, Connect, IInv, ThreadsInOrder
    <2>3. at'["local"] = at["local"]
      BY <2>1, OtherThread
    <2> QED BY <2>1, <2>2, <2>3 DEF Quiet
  <1>4. CASE Cancel("local", "joiningLocal") \/ Cancel("cloud", "joiningCloud")
    <2>1. /\ UNCHANGED <<pc, endpoint>>
          /\ pc = "joiningLocal" \/ pc = "joiningCloud"
          /\ pc = "joiningCloud" => UNCHANGED at \/ \E place : Move("cloud", place)
      BY <1>4 DEF Cancel, Doomed, endpoints, threads
    <2>2. pc = "joiningCloud" => at'["local"] = at["local"]
      BY <2>1, OtherThread
    <2> QED BY <2>1, <2>2 DEF Quiet
  <1> QED BY <1>1, <1>2, <1>3, <1>4

LEMMA NextQuiet ==
  IInv /\ Quiet /\ [Next]_vars => Quiet' /\ [pc # "done"]_vars
  <1> SUFFICES ASSUME IInv, Quiet, [Next]_vars
               PROVE  Quiet' /\ (pc # "done" \/ UNCHANGED vars)
    OBVIOUS
  <1>1. CASE UNCHANGED vars
    BY <1>1 DEF vars, endpoints, threads, Quiet
  <1>2. CASE DaemonThread \/ RequestStop
    <2>1. pc # "done"
      BY <1>2 DEF DaemonThread, RequestStop, StartLocal, StartLocalFails, StartCloud,
                  ConstructRecorder, AttachLocal, AttachCloud, RecordCloud, SetOnCloudConnected,
                  SetInvoker, StopLocal, CheckCloud, StopCloud, Disconnect, JoinLocal,
                  JoinCloud, Join, Reset
    <2> QED BY <1>2, <2>1, DaemonQuiet
  <1>3. CASE \/ CloudSetup \/ SubscribeFails
             \/ \E s \in Sides : Receive(s) \/ Handle(s) \/ LoseLink(s) \/ Connect(s)
             \/ Cancel("local", "joiningLocal") \/ Cancel("cloud", "joiningCloud")
    BY <1>3, OthersQuiet
  <1> QED BY <1>1, <1>2, <1>3 DEF Next

\* Whatever the loop threads were doing and however often the connections were lost,
\* nothing of the bridge is left when stop() has returned.
THEOREM NothingLeft == Spec => []NothingOutlivesStop
  <1>1. IInv /\ Quiet => NothingOutlivesStop
    BY DEF IInv, ThreadsInOrder, Quiet, NothingOutlivesStop, Sides
  <1>2. Spec => []Quiet
    BY InitQuiet, NextQuiet, Invariance, PTL DEF Spec
  <1> QED BY <1>1, <1>2, Invariance, PTL

\* Nor does anything start again: the flag of Daemon stays what stop() has made it.
THEOREM Final == Spec => StopIsFinal
  <1>1. Spec => []Quiet
    BY InitQuiet, NextQuiet, Invariance, PTL DEF Spec
  <1> QED BY <1>1, NextQuiet, Invariance, PTL DEF Spec, StopIsFinal
=============================================================================
