-------------------------- MODULE RsmSimulatorProofs --------------------------
(***************************************************************************)
(* The locks of the simulator do their work for any number of threads; a   *)
(* single client, its subscribers and the workers keep to one worker, stop *)
(* it, and report a running program.                                       *)
(***************************************************************************)
EXTENDS RsmSimulator, FiniteSetTheorems, TLAPS

LEMMA Homes == ASSUME NEW t \in Threads PROVE Home(t) \in {"idle", "loop"}
  BY DEF Home

\* Going from one place to another keeps the types and changes the place of
\* one thread only.
LEMMA Going ==
  ASSUME TypeOK, NEW t \in Threads, NEW from, NEW to \in Locations, Go(t, from, to)
  PROVE  /\ pc[t] = from
         /\ pc' \in [Threads -> Locations]
         /\ call' \in [Threads -> Modes \cup {"none", "start", "stop", "close", "scan"}]
         /\ pc'[t] = to
         /\ \A u \in Threads \ {t} : pc'[u] = pc[u] /\ call'[u] = call[u]
         /\ to \notin {"idle", "loop"} => call'[t] = call[t]
  BY Homes DEF Go, TypeOK

LEMMA Entering ==
  ASSUME TypeOK, NEW t \in Threads, NEW from, NEW to \in Locations,
         NEW c \in Modes \cup {"none", "start", "stop", "close", "scan"}, Enter(t, from, to, c)
  PROVE  /\ pc[t] = from
         /\ pc' \in [Threads -> Locations]
         /\ call' \in [Threads -> Modes \cup {"none", "start", "stop", "close", "scan"}]
         /\ pc'[t] = to /\ call'[t] = c
         /\ \A u \in Threads \ {t} : pc'[u] = pc[u] /\ call'[u] = call[u]
  BY DEF Enter, TypeOK

LEMMA InitSerialized == SimulatorAssumption /\ Init => Serialized
  BY ZenonT(40) DEF SimulatorAssumption, Init, Serialized, TypeOK, CallFits, Locking, DiagnosticsOfOwnScan,
         Threads, Home, Modes, Locations, NotRunning, Holding

LEMMA SetModeSerialized ==
  ASSUME SimulatorAssumption, Serialized, NEW t \in Threads, SetModeSteps(t)
  PROVE  Serialized'
<1> USE DEF Serialized
<1>1. CASE LockForMode(t)
  <2>1. Go(t, "lockMode", "setMode") /\ "setMode" \in Locations  BY <1>1 DEF LockForMode, Locations, NotRunning
  <2> QED  BY <1>1, <2>1, Going DEF LockForMode, Acquire, TypeOK, CallFits, Locking, Holding,
              DiagnosticsOfOwnScan, runtime, SimulatorAssumption, Threads, Locations, NotRunning
<1>2. CASE SetModeRaises(t)
  <2>1. PICK to \in Locations : /\ Go(t, "setMode", to)
                                /\ to \in {"idle", "loop"}
    BY <1>2, Homes DEF SetModeRaises, Home, Locations, NotRunning
  <2> QED  BY <1>2, <2>1, Going DEF SetModeRaises, Release, TypeOK, CallFits, Locking, Holding,
              DiagnosticsOfOwnScan, runtime, SimulatorAssumption, Threads, Locations, NotRunning
<1>3. CASE SetRuntimeMode(t)
  <2>1. Go(t, "setMode", "setState") /\ "setState" \in Locations  BY <1>3 DEF SetRuntimeMode, Locations, NotRunning
  <2>2. pc[t] = "setMode"  BY <1>3 DEF SetRuntimeMode, Go
  <2>3. call[t] \in Modes \cup {"start", "stop", "close"}  BY <2>2 DEF CallFits
  <2>4. Wanted(t) \in Modes  BY <2>3 DEF Wanted, Modes
  <2> QED  BY <1>3, <2>1, <2>4, Going DEF SetRuntimeMode, TypeOK, CallFits, Locking, Holding,
              DiagnosticsOfOwnScan, runtime, SimulatorAssumption, Threads, Locations, NotRunning
<1>4. CASE SetState(t)
  <2>1. PICK to \in Locations : /\ Go(t, "setState", to)
                                /\ to \in {"idle", "loop", "emitMode"}
    BY <1>4, Homes DEF SetState, Home, Locations, NotRunning
  <2> QED  BY SMTT(30), <1>4, <2>1, Going DEF SetState, Release, Wanted, StateOf, Modes, TypeOK, CallFits, Locking, Holding,
              DiagnosticsOfOwnScan, runtime, SimulatorAssumption, Threads, Locations, NotRunning
<1>5. CASE EmitMode(t)
  <2>1. PICK to \in Locations : /\ Go(t, "emitMode", to)
                                /\ to \in {"idle", "loop", "clear", "stopped"} /\ (to = "stopped" => call[t] \in {"stop", "close"})
    BY <1>5, Homes DEF EmitMode, AfterMode, Home, Locations, NotRunning
  <2> QED  BY <1>5, <2>1, Going DEF EmitMode, TypeOK, CallFits, Locking, Holding,
              DiagnosticsOfOwnScan, runtime, SimulatorAssumption, Threads, Locations, NotRunning
<1> QED  BY <1>1, <1>2, <1>3, <1>4, <1>5 DEF SetModeSteps

LEMMA StartSerialized ==
  ASSUME SimulatorAssumption, Serialized, NEW t \in Threads, StartSteps(t)
  PROVE  Serialized'
<1> USE DEF Serialized
<1>1. CASE ModeForStart(t)
  <2>1. PICK to \in Locations : /\ Go(t, "readMode", to)
                                /\ to \in {"idle", "loop", "clear", "lockMode"}
    BY <1>1, Homes DEF ModeForStart, Home, Locations, NotRunning
  <2> QED  BY <1>1, <2>1, Going DEF ModeForStart, TypeOK, CallFits, Locking, Holding,
              DiagnosticsOfOwnScan, runtime, SimulatorAssumption, Threads, Locations, NotRunning
<1>2. CASE ClearStop(t)
  <2>1. Go(t, "clear", "newWorker") /\ "newWorker" \in Locations  BY <1>2 DEF ClearStop, Locations, NotRunning
  <2>2. TypeOK'  BY <1>2, <2>1, Going DEF ClearStop, TypeOK, runtime
  <2>3. (CallFits /\ Locking /\ DiagnosticsOfOwnScan)'
    BY <1>2, <2>1, Going DEF ClearStop, CallFits, Locking, Holding, DiagnosticsOfOwnScan, runtime
  <2> QED  BY <2>2, <2>3
<1>3. CASE NewWorker(t)
  <2>1. PICK w \in Workers :
          /\ Fresh(w) /\ pc[t] = "newWorker" /\ worker' = w
          /\ pc' = [pc EXCEPT ![t] = "startWorker", ![w] = "new"]
    BY <1>3 DEF NewWorker
  <2>2. w \in Threads /\ pc[w] \in NotRunning  BY <2>1 DEF Fresh, Alive, Threads
  <2>3. pc' \in [Threads -> Locations]  BY <2>1 DEF TypeOK, Locations, NotRunning
  <2>4. \A u \in Threads :
          \/ pc'[u] = pc[u] /\ u \notin {t, w}
          \/ pc'[u] \in {"startWorker", "new"} /\ pc[u] \in NotRunning \cup {"newWorker"}
    BY <2>1, <2>2 DEF TypeOK
  <2>5. UNCHANGED <<mode, open, state, lock, stopEvent, lastScan, call, joined, calm>>
    BY <1>3 DEF NewWorker, runtime
  <2>6. TypeOK'  BY <2>1, <2>3, <2>5 DEF TypeOK
  <2>7. CallFits'  BY <2>4, <2>5 DEF CallFits
  <2>8. Locking'  BY <2>4, <2>5 DEF Locking, Holding, NotRunning
  <2>9. DiagnosticsOfOwnScan'  BY <2>4, <2>5 DEF DiagnosticsOfOwnScan
  <2> QED  BY <2>6, <2>7, <2>8, <2>9
<1>4. CASE StartWorker(t)
  <2>1. /\ pc[t] = "startWorker"
        /\ UNCHANGED <<mode, open, state, lock, stopEvent, worker, lastScan, joined, calm>>
        /\ call' = [call EXCEPT ![t] = "none"]
    BY <1>4 DEF StartWorker, runtime
  <2>2. pc' \in [Threads -> Locations]
    BY <1>4, Homes DEF StartWorker, TypeOK, Locations, NotRunning, Threads
  <2>3. \A u \in Threads : \/ pc'[u] = pc[u] /\ call'[u] = call[u]
                           \/ pc'[u] \in {"idle", "loop"} /\ pc[u] \in {"startWorker", "new"}
    BY <1>4, <2>1, Homes DEF StartWorker, TypeOK
  <2>4. TypeOK'  BY <2>1, <2>2 DEF TypeOK
  <2>5. CallFits'  BY <2>3 DEF CallFits
  <2>6. Locking'  BY <2>1, <2>3 DEF Locking, Holding
  <2>7. DiagnosticsOfOwnScan'  BY <2>1, <2>3 DEF DiagnosticsOfOwnScan
  <2> QED  BY <2>4, <2>5, <2>6, <2>7
<1> QED  BY <1>1, <1>2, <1>3, <1>4 DEF StartSteps

LEMMA StopSerialized ==
  ASSUME SimulatorAssumption, Serialized, NEW t \in Threads, StopSteps(t)
  PROVE  Serialized'
<1> USE DEF Serialized
<1>1. CASE SetStop(t)
  <2>1. Go(t, "setStop", "join") /\ "join" \in Locations  BY <1>1 DEF SetStop, Locations, NotRunning
  <2> QED  BY <1>1, <2>1, Going DEF SetStop, TypeOK, CallFits, Locking, Holding,
              DiagnosticsOfOwnScan, runtime, SimulatorAssumption, Threads, Locations, NotRunning
<1>2. CASE Join(t)
  <2>1. PICK to \in Locations : /\ Go(t, "join", to)
                                /\ to \in {"idle", "loop", "stopMode", "joining"}
    BY <1>2, Homes DEF Join, Home, Locations, NotRunning
  <2> QED  BY SMTT(30), <1>2, <2>1, Going DEF Join, TypeOK, CallFits, Locking, Holding,
              DiagnosticsOfOwnScan, runtime, SimulatorAssumption, Threads, Locations, NotRunning
<1>3. CASE Joined(t)
  <2>1. Go(t, "joining", "stopMode") /\ "stopMode" \in Locations  BY <1>3 DEF Joined, Locations, NotRunning
  <2> QED  BY <1>3, <2>1, Going DEF Joined, TypeOK, CallFits, Locking, Holding,
              DiagnosticsOfOwnScan, runtime, SimulatorAssumption, Threads, Locations, NotRunning
<1>4. CASE ModeForStop(t)
  <2>1. PICK to \in Locations : /\ Go(t, "stopMode", to)
                                /\ to \in {"idle", "loop", "lockMode", "stopped"}
    BY <1>4, Homes DEF ModeForStop, Home, Locations, NotRunning
  <2> QED  BY <1>4, <2>1, Going DEF ModeForStop, TypeOK, CallFits, Locking, Holding,
              DiagnosticsOfOwnScan, runtime, SimulatorAssumption, Threads, Locations, NotRunning
<1>5. CASE Stopped(t)
  <2>1. PICK to \in Locations : /\ Go(t, "stopped", to)
                                /\ to \in {"idle", "loop", "closeRuntime"}
    BY <1>5, Homes DEF Stopped, Home, Locations, NotRunning
  <2> QED  BY <1>5, <2>1, Going DEF Stopped, TypeOK, CallFits, Locking, Holding,
              DiagnosticsOfOwnScan, runtime, SimulatorAssumption, Threads, Locations, NotRunning
<1>6. CASE CloseRuntime(t)
  <2>1. Go(t, "closeRuntime", "closeState") /\ "closeState" \in Locations  BY <1>6 DEF CloseRuntime, Locations, NotRunning
  <2>2. TypeOK'  BY <1>6, <2>1, Going DEF CloseRuntime, TypeOK, Modes
  <2>3. (CallFits /\ Locking /\ DiagnosticsOfOwnScan)'
    BY <1>6, <2>1, Going DEF CloseRuntime, CallFits, Locking, Holding, DiagnosticsOfOwnScan
  <2> QED  BY <2>2, <2>3
<1>7. CASE CloseState(t)
  <2>1. PICK to \in Locations : /\ Go(t, "closeState", to)
                                /\ to \in {"idle", "loop"}
    BY <1>7, Homes DEF CloseState, Home, Locations, NotRunning
  <2> QED  BY <1>7, <2>1, Going DEF CloseState, TypeOK, CallFits, Locking, Holding,
              DiagnosticsOfOwnScan, runtime, SimulatorAssumption, Threads, Locations, NotRunning
<1> QED  BY <1>1, <1>2, <1>3, <1>4, <1>5, <1>6, <1>7 DEF StopSteps

LEMMA ScanSerialized ==
  ASSUME SimulatorAssumption, Serialized, NEW t \in Threads, ScanSteps(t)
  PROVE  Serialized'
<1> USE DEF Serialized
<1>1. CASE LockForScan(t)
  <2>1. Go(t, "lockScan", "scan") /\ "scan" \in Locations  BY <1>1 DEF LockForScan, Locations, NotRunning
  <2> QED  BY <1>1, <2>1, Going DEF LockForScan, Acquire, TypeOK, CallFits, Locking, Holding,
              DiagnosticsOfOwnScan, runtime, SimulatorAssumption, Threads, Locations, NotRunning
<1>2. CASE ScanRaises(t)
  <2>1. PICK to \in Locations : /\ Go(t, "scan", to)
                                /\ to \in {"idle", "fault"} /\ Release
    BY <1>2, Homes DEF ScanRaises, Raise, Home, Locations, NotRunning
  <2> QED  BY <1>2, <2>1, Going DEF ScanRaises, Release, TypeOK, CallFits, Locking, Holding,
              DiagnosticsOfOwnScan, runtime, SimulatorAssumption, Threads, Locations, NotRunning
<1>3. CASE NativeScan(t)
  <2>1. Go(t, "scan", "inScan") /\ "inScan" \in Locations  BY <1>3 DEF NativeScan, Locations, NotRunning
  <2> QED  BY <1>3, <2>1, Going DEF NativeScan, TypeOK, CallFits, Locking, Holding,
              DiagnosticsOfOwnScan, runtime, SimulatorAssumption, Threads, Locations, NotRunning
<1>4. CASE ScanReturns(t)
  <2>1. Go(t, "inScan", "diagnostics") /\ "diagnostics" \in Locations  BY <1>4 DEF ScanReturns, Locations, NotRunning
  <2> QED  BY <1>4, <2>1, Going DEF ScanReturns, TypeOK, CallFits, Locking, Holding,
              DiagnosticsOfOwnScan, runtime, SimulatorAssumption, Threads, Locations, NotRunning
<1>5. CASE ScanFaults(t)
  <2>1. PICK to \in Locations : /\ Go(t, "inScan", to)
                                /\ to \in {"idle", "fault"} /\ Release
    BY <1>5, Homes DEF ScanFaults, Raise, Home, Locations, NotRunning
  <2> QED  BY <1>5, <2>1, Going DEF ScanFaults, Release, Modes, TypeOK, CallFits, Locking, Holding,
              DiagnosticsOfOwnScan, runtime, SimulatorAssumption, Threads, Locations, NotRunning
<1>6. CASE ReadDiagnostics(t)
  <2>1. PICK to \in Locations : /\ Go(t, "diagnostics", to)
                                /\ to \in {"idle", "fault", "callback"} /\ Release
    BY <1>6, Homes DEF ReadDiagnostics, Raise, Home, Locations, NotRunning
  <2> QED  BY <1>6, <2>1, Going DEF ReadDiagnostics, Release, TypeOK, CallFits, Locking, Holding,
              DiagnosticsOfOwnScan, runtime, SimulatorAssumption, Threads, Locations, NotRunning
<1> QED  BY <1>1, <1>2, <1>3, <1>4, <1>5, <1>6 DEF ScanSteps

LEMMA WorkerSerialized ==
  ASSUME SimulatorAssumption, Serialized, NEW t \in Threads, WorkerSteps(t)
  PROVE  Serialized'
<1> USE DEF Serialized
<1>1. CASE Loop(t)
  <2>1. PICK to \in Locations : /\ Go(t, "loop", to)
                                /\ to \in {"dead", "lockScan"}
    BY <1>1, Homes DEF Loop, Home, Locations, NotRunning
  <2> QED  BY <1>1, <2>1, Going DEF Loop, TypeOK, CallFits, Locking, Holding,
              DiagnosticsOfOwnScan, runtime, SimulatorAssumption, Threads, Locations, NotRunning
<1>2. CASE NextScan(t)
  <2>1. Go(t, "callback", "loop") /\ "loop" \in Locations  BY <1>2 DEF NextScan, Locations, NotRunning
  <2> QED  BY <1>2, <2>1, Going DEF NextScan, TypeOK, CallFits, Locking, Holding,
              DiagnosticsOfOwnScan, runtime, SimulatorAssumption, Threads, Locations, NotRunning
<1>3. CASE Fault(t)
  <2>1. Go(t, "fault", "faultStop") /\ "faultStop" \in Locations  BY <1>3 DEF Fault, Locations, NotRunning
  <2> QED  BY <1>3, <2>1, Going DEF Fault, TypeOK, CallFits, Locking, Holding,
              DiagnosticsOfOwnScan, runtime, SimulatorAssumption, Threads, Locations, NotRunning
<1>4. CASE FaultStop(t)
  <2>1. Go(t, "faultStop", "lastFault") /\ "lastFault" \in Locations  BY <1>4 DEF FaultStop, Locations, NotRunning
  <2> QED  BY <1>4, <2>1, Going DEF FaultStop, TypeOK, CallFits, Locking, Holding,
              DiagnosticsOfOwnScan, runtime, SimulatorAssumption, Threads, Locations, NotRunning
<1>5. CASE LastFault(t)
  <2>1. Go(t, "lastFault", "dead") /\ "dead" \in Locations  BY <1>5 DEF LastFault, Locations, NotRunning
  <2> QED  BY <1>5, <2>1, Going DEF LastFault, TypeOK, CallFits, Locking, Holding,
              DiagnosticsOfOwnScan, runtime, SimulatorAssumption, Threads, Locations, NotRunning
<1> QED  BY <1>1, <1>2, <1>3, <1>4, <1>5 DEF WorkerSteps

LEMMA CallSerialized ==
  ASSUME SimulatorAssumption, Serialized, NEW t \in Threads, Call(t)
  PROVE  Serialized'
<1> USE DEF Serialized
<1>1. PICK from, to \in Locations, c \in Modes \cup {"start", "stop", "close", "scan"} :
        /\ Enter(t, from, to, c)
        /\ from \in {"idle", "callback"}
        /\ \/ to = "readMode" /\ c = "start"
           \/ to = "setStop" /\ c \in {"stop", "close"}
           \/ to = "lockMode" /\ c \in Modes
           \/ to = "lockScan"
  BY DEF Call, CallStop, CallStart, CallClose, CallScan, CallSetMode, Locations, NotRunning
<1>2. UNCHANGED <<mode, open, state, lock, stopEvent, worker, lastScan, joined, calm>>
  BY DEF Call, CallStop, CallStart, CallClose, CallScan, CallSetMode, runtime
<1>3. TypeOK'  BY ZenonT(40), <1>1, <1>2, Entering DEF TypeOK
<1>4. CallFits'  BY <1>1, Entering DEF CallFits
<1>5. Locking'  BY <1>1, <1>2, Entering DEF Locking, Holding
<1>6. DiagnosticsOfOwnScan'  BY <1>1, <1>2, Entering DEF DiagnosticsOfOwnScan
<1> QED  BY <1>3, <1>4, <1>5, <1>6

LEMMA StutterSerialized == Serialized /\ UNCHANGED vars => Serialized'
  BY DEF Serialized, vars, runtime, TypeOK, CallFits, Locking, DiagnosticsOfOwnScan

\* One call of the simulator never comes between the parts of another, however
\* many threads call it: scan and diagnostics, mode and state belong together.
THEOREM SerializedHolds == Spec => []Serialized
<1>1. Init => Serialized  BY InitSerialized, SimulatorAssumption
<1>2. Serialized /\ [Next]_vars => Serialized'
  BY SimulatorAssumption, SetModeSerialized, StartSerialized, StopSerialized, ScanSerialized,
     WorkerSerialized, CallSerialized, StutterSerialized DEF Next, Step
<1> QED  BY <1>1, <1>2, PTL DEF Spec

\* The diagnostics a scan hands on are its own.
THEOREM DiagnosticsAreOwn == Spec => []DiagnosticsOfOwnScan
<1>1. Serialized => DiagnosticsOfOwnScan  BY DEF Serialized
<1> QED  BY <1>1, SerializedHolds, PTL

-----------------------------------------------------------------------------
(* The native runtime sees a lifecycle.                                    *)

\* The lock of the simulator is held by the thread inside a native scan, so
\* there is only one and nobody else is about to change the mode.
LEMMA OneScan ==
  ASSUME SimulatorAssumption, Serialized, NEW t \in Threads, NEW u \in Threads,
         pc[t] \in Holding, pc[u] \in Holding
  PROVE  t = u
  BY DEF Serialized, Locking

LEMMA ScanningSame ==
  ASSUME TypeOK, NEW t \in Threads, NEW from, NEW to \in Locations, Go(t, from, to),
         from # "inScan", to # "inScan"
  PROVE  RuntimeFree' <=> RuntimeFree
  BY Going DEF RuntimeFree

\* A step outside the runtime changes nothing the lifecycle speaks of.
LEMMA Quiet ==
  ASSUME Serialized, NEW t \in Threads, NEW from, NEW to \in Locations, Go(t, from, to),
         from # "inScan", to # "inScan", UNCHANGED runtime
  PROVE  [Lifecycle!Next]_(Lifecycle!vars)
  BY ScanningSame DEF Serialized, Lifecycle!vars, runtime

\* A thread that leaves a native scan leaves the runtime free.
LEMMA ScanEnds ==
  ASSUME SimulatorAssumption, Serialized, NEW t \in Threads, NEW to \in Locations,
         Go(t, "inScan", to), to # "inScan"
  PROVE  ~RuntimeFree /\ RuntimeFree'
<1>1. pc[t] = "inScan"  BY DEF Go
<1>2. \A u \in Threads \ {t} : pc[u] # "inScan"  BY <1>1, OneScan DEF Holding
<1> QED  BY <1>1, <1>2, Going DEF Serialized, RuntimeFree

LEMMA SetModeKeeps ==
  ASSUME SimulatorAssumption, Serialized, NEW t \in Threads, SetModeSteps(t)
  PROVE  [Lifecycle!Next]_(Lifecycle!vars)
<1>1. CASE LockForMode(t)
  <2>1. PICK to \in Locations : Go(t, "lockMode", to) /\ to # "inScan" /\ UNCHANGED runtime
    BY <1>1, Homes DEF LockForMode, Locations, NotRunning
  <2> QED  BY <2>1, Quiet
<1>2. CASE SetModeRaises(t)
  <2>1. PICK to \in Locations : Go(t, "setMode", to) /\ to # "inScan" /\ UNCHANGED runtime
    BY <1>2, Homes DEF SetModeRaises, Locations, NotRunning
  <2> QED  BY <2>1, Quiet
<1>3. CASE SetRuntimeMode(t)
  <2>1. Go(t, "setMode", "setState") /\ "setState" \in Locations  BY <1>3 DEF SetRuntimeMode, Locations
  <2>2. call[t] \in Modes \cup {"start", "stop", "close"}  BY <2>1 DEF Serialized, CallFits, Go
  <2>3. Wanted(t) \in Modes  BY <2>2 DEF Wanted, Modes
  <2>4. RuntimeFree /\ RuntimeFree'  BY <1>3, <2>1, ScanningSame DEF SetRuntimeMode, Serialized
  <2>5. /\ open /\ (mode = "FAULTED" => Wanted(t) = "PROGRAM")
        /\ mode' = Wanted(t) /\ open' = open
    BY <1>3 DEF SetRuntimeMode, Refused
  <2>6. Lifecycle!Select(Wanted(t))  BY <2>4, <2>5 DEF Lifecycle!Select
  <2> QED  BY <2>3, <2>6 DEF Lifecycle!Next, Modes
<1>4. CASE SetState(t)
  <2>1. PICK to \in Locations : Go(t, "setState", to) /\ to # "inScan" /\ UNCHANGED runtime
    BY <1>4, Homes DEF SetState, Locations, NotRunning
  <2> QED  BY <2>1, Quiet
<1>5. CASE EmitMode(t)
  <2>1. PICK to \in Locations : Go(t, "emitMode", to) /\ to # "inScan" /\ UNCHANGED runtime
    BY <1>5, Homes DEF EmitMode, AfterMode, Locations, NotRunning
  <2> QED  BY <2>1, Quiet
<1> QED  BY <1>1, <1>2, <1>3, <1>4, <1>5 DEF SetModeSteps

LEMMA StartKeeps ==
  ASSUME SimulatorAssumption, Serialized, NEW t \in Threads, StartSteps(t)
  PROVE  [Lifecycle!Next]_(Lifecycle!vars)
<1>1. CASE ModeForStart(t)
  <2>1. PICK to \in Locations : Go(t, "readMode", to) /\ to # "inScan" /\ UNCHANGED runtime
    BY <1>1, Homes DEF ModeForStart, Locations, NotRunning
  <2> QED  BY <2>1, Quiet
<1>2. CASE ClearStop(t)
  <2>1. PICK to \in Locations : Go(t, "clear", to) /\ to # "inScan" /\ UNCHANGED runtime
    BY <1>2, Homes DEF ClearStop, Locations, NotRunning
  <2> QED  BY <2>1, Quiet
<1>3. CASE NewWorker(t)
  <2>1. RuntimeFree' <=> RuntimeFree
    BY <1>3 DEF NewWorker, Fresh, Alive, RuntimeFree, Serialized, TypeOK, NotRunning
  <2> QED  BY <1>3, <2>1 DEF NewWorker, Lifecycle!vars, runtime
<1>4. CASE StartWorker(t)
  <2>1. RuntimeFree' <=> RuntimeFree
    BY <1>4, Homes DEF StartWorker, RuntimeFree, Serialized, TypeOK
  <2> QED  BY <1>4, <2>1 DEF StartWorker, Lifecycle!vars, runtime
<1> QED  BY <1>1, <1>2, <1>3, <1>4 DEF StartSteps

LEMMA StopKeeps ==
  ASSUME SimulatorAssumption, Serialized, NEW t \in Threads, StopSteps(t)
  PROVE  [Lifecycle!Next]_(Lifecycle!vars)
<1>1. CASE SetStop(t)
  <2>1. PICK to \in Locations : Go(t, "setStop", to) /\ to # "inScan" /\ UNCHANGED runtime
    BY <1>1, Homes DEF SetStop, Locations, NotRunning
  <2> QED  BY <2>1, Quiet
<1>2. CASE Join(t)
  <2>1. PICK to \in Locations : Go(t, "join", to) /\ to # "inScan" /\ UNCHANGED runtime
    BY <1>2, Homes DEF Join, Locations, NotRunning
  <2> QED  BY <2>1, Quiet
<1>3. CASE Joined(t)
  <2>1. PICK to \in Locations : Go(t, "joining", to) /\ to # "inScan" /\ UNCHANGED runtime
    BY <1>3, Homes DEF Joined, Locations, NotRunning
  <2> QED  BY <2>1, Quiet
<1>4. CASE ModeForStop(t)
  <2>1. PICK to \in Locations : Go(t, "stopMode", to) /\ to # "inScan" /\ UNCHANGED runtime
    BY <1>4, Homes DEF ModeForStop, Locations, NotRunning
  <2> QED  BY <2>1, Quiet
<1>5. CASE Stopped(t)
  <2>1. PICK to \in Locations : Go(t, "stopped", to) /\ to # "inScan" /\ UNCHANGED runtime
    BY <1>5, Homes DEF Stopped, Locations, NotRunning
  <2> QED  BY <2>1, Quiet
<1>6. CASE CloseRuntime(t)
  <2>1. Go(t, "closeRuntime", "closeState") /\ "closeState" \in Locations  BY <1>6 DEF CloseRuntime, Locations
  <2>2. RuntimeFree /\ RuntimeFree'  BY <1>6, <2>1, ScanningSame DEF CloseRuntime, Serialized
  <2>3. Lifecycle!Discard  BY <1>6, <2>2 DEF CloseRuntime, Lifecycle!Discard
  <2> QED  BY <2>3 DEF Lifecycle!Next
<1>7. CASE CloseState(t)
  <2>1. PICK to \in Locations : Go(t, "closeState", to) /\ to # "inScan" /\ UNCHANGED runtime
    BY <1>7, Homes DEF CloseState, Locations, NotRunning
  <2> QED  BY <2>1, Quiet
<1> QED  BY <1>1, <1>2, <1>3, <1>4, <1>5, <1>6, <1>7 DEF StopSteps

LEMMA ScanKeeps ==
  ASSUME SimulatorAssumption, Serialized, NEW t \in Threads, ScanSteps(t)
  PROVE  [Lifecycle!Next]_(Lifecycle!vars)
<1>1. CASE LockForScan(t)
  <2>1. PICK to \in Locations : Go(t, "lockScan", to) /\ to # "inScan" /\ UNCHANGED runtime
    BY <1>1, Homes DEF LockForScan, Locations, NotRunning
  <2> QED  BY <2>1, Quiet
<1>2. CASE ScanRaises(t)
  <2>1. PICK to \in Locations : Go(t, "scan", to) /\ to # "inScan" /\ UNCHANGED runtime
    BY <1>2, Homes DEF ScanRaises, Raise, Locations, NotRunning
  <2> QED  BY <2>1, Quiet
<1>3. CASE NativeScan(t)
  <2>1. Go(t, "scan", "inScan") /\ "inScan" \in Locations  BY <1>3 DEF NativeScan, Locations
  <2>2. RuntimeFree /\ ~RuntimeFree'  BY <1>3, <2>1, Going DEF NativeScan, Serialized, RuntimeFree
  <2>3. Lifecycle!Call  BY <1>3, <2>2 DEF NativeScan, Active, runtime, Lifecycle!Call
  <2> QED  BY <2>3 DEF Lifecycle!Next
<1>4. CASE ScanReturns(t)
  <2>1. Go(t, "inScan", "diagnostics") /\ "diagnostics" \in Locations  BY <1>4 DEF ScanReturns, Locations
  <2>2. Lifecycle!Return  BY <1>4, <2>1, ScanEnds DEF ScanReturns, runtime, Lifecycle!Return
  <2> QED  BY <2>2 DEF Lifecycle!Next
<1>5. CASE ScanFaults(t)
  <2>1. PICK to \in Locations : Go(t, "inScan", to) /\ to # "inScan"
    BY <1>5 DEF ScanFaults, Raise, Locations
  <2>2. Lifecycle!Return  BY <1>5, <2>1, ScanEnds DEF ScanFaults, Lifecycle!Return
  <2> QED  BY <2>2 DEF Lifecycle!Next
<1>6. CASE ReadDiagnostics(t)
  <2>1. PICK to \in Locations : Go(t, "diagnostics", to) /\ to # "inScan" /\ UNCHANGED runtime
    BY <1>6, Homes DEF ReadDiagnostics, Raise, Locations, NotRunning
  <2> QED  BY <2>1, Quiet
<1> QED  BY <1>1, <1>2, <1>3, <1>4, <1>5, <1>6 DEF ScanSteps

LEMMA WorkerKeeps ==
  ASSUME SimulatorAssumption, Serialized, NEW t \in Threads, WorkerSteps(t)
  PROVE  [Lifecycle!Next]_(Lifecycle!vars)
<1>1. CASE Loop(t)
  <2>1. PICK to \in Locations : Go(t, "loop", to) /\ to # "inScan" /\ UNCHANGED runtime
    BY <1>1, Homes DEF Loop, Locations, NotRunning
  <2> QED  BY <2>1, Quiet
<1>2. CASE NextScan(t)
  <2>1. PICK to \in Locations : Go(t, "callback", to) /\ to # "inScan" /\ UNCHANGED runtime
    BY <1>2, Homes DEF NextScan, Locations, NotRunning
  <2> QED  BY <2>1, Quiet
<1>3. CASE Fault(t)
  <2>1. PICK to \in Locations : Go(t, "fault", to) /\ to # "inScan" /\ UNCHANGED runtime
    BY <1>3, Homes DEF Fault, Locations, NotRunning
  <2> QED  BY <2>1, Quiet
<1>4. CASE FaultStop(t)
  <2>1. PICK to \in Locations : Go(t, "faultStop", to) /\ to # "inScan" /\ UNCHANGED runtime
    BY <1>4, Homes DEF FaultStop, Locations, NotRunning
  <2> QED  BY <2>1, Quiet
<1>5. CASE LastFault(t)
  <2>1. PICK to \in Locations : Go(t, "lastFault", to) /\ to # "inScan" /\ UNCHANGED runtime
    BY <1>5, Homes DEF LastFault, Locations, NotRunning
  <2> QED  BY <2>1, Quiet
<1> QED  BY <1>1, <1>2, <1>3, <1>4, <1>5 DEF WorkerSteps

LEMMA CallKeeps ==
  ASSUME Serialized, NEW t \in Threads, Call(t)
  PROVE  [Lifecycle!Next]_(Lifecycle!vars)
<1>1. PICK from, to \in Locations \ {"inScan"}, c \in Modes \cup {"start", "stop", "close", "scan"} :
        Enter(t, from, to, c)
  BY DEF Call, CallStop, CallStart, CallClose, CallScan, CallSetMode, Locations, NotRunning
<1>2. UNCHANGED runtime
  BY DEF Call, CallStop, CallStart, CallClose, CallScan, CallSetMode
<1>3. RuntimeFree' <=> RuntimeFree  BY <1>1, Entering DEF Serialized, RuntimeFree
<1> QED  BY <1>2, <1>3 DEF Lifecycle!vars, runtime

\* However many threads call the simulator, the native runtime is called as
\* RsmLifecycle lets a single host call it.
THEOREM LifecycleKept == Spec => RuntimeKeepsLifecycle
<1>1. Serialized /\ [Next]_vars => [Lifecycle!Next]_(Lifecycle!vars)
  <2>1. CASE UNCHANGED vars
    BY <2>1 DEF vars, runtime, RuntimeFree, Lifecycle!vars
  <2>2. CASE Next
    BY <2>2, SimulatorAssumption, SetModeKeeps, StartKeeps, StopKeeps, ScanKeeps, WorkerKeeps, CallKeeps
       DEF Next, Step
  <2> QED  BY <2>1, <2>2
<1> QED  BY <1>1, SerializedHolds, PTL DEF Spec, RuntimeKeepsLifecycle

-----------------------------------------------------------------------------
(* One client at a time: the workers.  A run of two clients shows that     *)
(* without it start makes a second worker.                                 *)

NoneAlive == \A w \in Workers : ~Alive(w)

StartPlaces == {"readMode", "clear", "newWorker", "startWorker"}
ClosePlaces == {"closeRuntime", "closeState"}
AfterJoin == {"stopMode", "lockMode", "setMode", "setState", "emitMode", "stopped"} \cup ClosePlaces
StopPlaces == {"setStop", "join", "joining"} \cup AfterJoin

\* A worker is in its loop, or in the stop of a subscriber.
WorkerOK(w) ==
  /\ call[w] \in {"none", "stop"}
  /\ pc[w] \notin StartPlaces \cup ClosePlaces
  /\ calm => call[w] = "none" /\ pc[w] \notin StopPlaces

\* A client that starts has found no worker, and one that is past the join of
\* its stop leaves none.
ClientOK(c) ==
  /\ pc[c] \in StartPlaces => call[c] = "start"
  /\ call[c] = "start" => NoneAlive
  /\ pc[c] \in ClosePlaces => call[c] = "close"
  /\ pc[c] = "joining" => joined[c] = worker
  /\ calm /\ call[c] \in {"stop", "close"} /\ pc[c] \in AfterJoin => NoneAlive

\* The mode and the state that is reported of it.
ModeOK(c) ==
  calm =>
    /\ pc[c] = "setState" => mode = Wanted(c)
    /\ (call[c] \in {"stop", "close"} /\ pc[c] \in {"emitMode", "stopped"} \cup ClosePlaces) =>
         mode \notin Active
    /\ open /\ mode = "RUN" => state \in {"RUNNING", "FAULTED"} \/ pc[c] = "setState"

Alone(c) ==
  /\ Serialized
  /\ \A w \in Workers : WorkerOK(w) /\ (Alive(w) => w = worker)
  /\ ClientOK(c)
  /\ ModeOK(c)

\* What is left alone by a step of another thread.
LEMMA ClientGoing ==
  ASSUME SimulatorAssumption, TypeOK, NEW c \in Clients, NEW from, NEW to, Go(c, from, to)
  PROVE  /\ pc[c] = from /\ pc'[c] = to
         /\ call'[c] = IF to = "idle" THEN "none" ELSE call[c]
         /\ \A w \in Workers : pc'[w] = pc[w] /\ call'[w] = call[w]
  BY DEF Go, Home, TypeOK, Threads, SimulatorAssumption

LEMMA ClientEntering ==
  ASSUME SimulatorAssumption, TypeOK, NEW c \in Clients, NEW from, NEW to, NEW k,
         Enter(c, from, to, k)
  PROVE  /\ pc[c] = from /\ pc'[c] = to /\ call'[c] = k
         /\ \A w \in Workers : pc'[w] = pc[w] /\ call'[w] = call[w]
  BY DEF Enter, TypeOK, Threads, SimulatorAssumption

LEMMA WorkerGoing ==
  ASSUME SimulatorAssumption, TypeOK, NEW w \in Workers, NEW from, NEW to, Go(w, from, to)
  PROVE  /\ pc[w] = from /\ pc'[w] = to
         /\ call'[w] = IF to = "loop" THEN "none" ELSE call[w]
         /\ \A u \in Threads \ {w} : pc'[u] = pc[u] /\ call'[u] = call[u]
  BY DEF Go, Home, TypeOK, Threads, SimulatorAssumption

\* What a worker's step does to what the invariant speaks of.
WorkerShape(w) ==
  /\ worker' = worker /\ calm' = calm /\ open' = open
  /\ \A u \in Threads \ {w} : pc'[u] = pc[u] /\ call'[u] = call[u] /\ joined'[u] = joined[u]
  /\ pc[w] \notin NotRunning
  /\ WorkerOK(w)'
  /\ calm => /\ mode' = mode \/ (mode' = "FAULTED" /\ pc[w] = "inScan")
             /\ state' \in {state, "FAULTED"}

LEMMA WorkerSets ==
  ASSUME SimulatorAssumption, TypeOK, CallFits, NEW w \in Workers, WorkerOK(w), SetModeSteps(w)
  PROVE  WorkerShape(w)
<1> USE DEF StopPlaces, AfterJoin, ClosePlaces, StartPlaces, NotRunning, runtime
<1>1. PICK from \in {"lockMode", "setMode", "setState", "emitMode"},
           to \in {"setMode", "setState", "emitMode", "stopped", "loop", "idle", "clear"} :
        Go(w, from, to) /\ (to \in {"idle", "clear"} => FALSE)
  <2>1. Home(w) = "loop"  BY DEF Home, SimulatorAssumption
  <2>2. pc[w] = "emitMode" => call[w] = "stop"
    BY DEF CallFits, WorkerOK, Threads, Modes
  <2>3. pc[w] = "emitMode" => AfterMode(w) = "stopped"  BY <2>2 DEF AfterMode
  <2> QED  BY <2>1, <2>3 DEF SetModeSteps, LockForMode, SetModeRaises, SetRuntimeMode, SetState,
              EmitMode, Go
<1>2. UNCHANGED <<worker, calm, open, joined>>
  BY DEF SetModeSteps, LockForMode, SetModeRaises, SetRuntimeMode, SetState, EmitMode
<1>3. pc[w] = from /\ ~calm  BY <1>1, WorkerGoing DEF WorkerOK
<1>4. WorkerOK(w)'  BY <1>1, <1>2, <1>3, WorkerGoing DEF WorkerOK
<1>5. \A u \in Threads \ {w} : pc'[u] = pc[u] /\ call'[u] = call[u] /\ joined'[u] = joined[u]
  BY <1>1, <1>2, WorkerGoing
<1> QED  BY <1>2, <1>3, <1>4, <1>5 DEF WorkerShape

LEMMA WorkerStops ==
  ASSUME SimulatorAssumption, TypeOK, CallFits, NEW w \in Workers, WorkerOK(w), StopSteps(w)
  PROVE  WorkerShape(w)
<1> USE DEF StopPlaces, AfterJoin, ClosePlaces, StartPlaces, NotRunning, runtime
<1>1. PICK from \in {"setStop", "join", "joining", "stopMode", "stopped"},
           to \in {"join", "joining", "stopMode", "stopped", "lockMode", "loop"} :
        Go(w, from, to)
  <2>1. Home(w) = "loop"  BY DEF Home, SimulatorAssumption
  <2>2. pc[w] \notin ClosePlaces /\ call[w] # "close"  BY DEF WorkerOK
  <2> QED  BY <2>1, <2>2 DEF StopSteps, SetStop, Join, Joined, ModeForStop, Stopped,
              CloseRuntime, CloseState, Go
<1>2. /\ UNCHANGED <<worker, calm, open>>
      /\ joined' \in {joined} \cup {[joined EXCEPT ![w] = v] : v \in Workers \cup {None}}
  <2>1. pc[w] \notin ClosePlaces  BY DEF WorkerOK
  <2> QED  BY <2>1 DEF StopSteps, SetStop, Join, Joined, ModeForStop, Stopped, CloseRuntime,
              CloseState, Go, TypeOK
<1>3. pc[w] = from /\ ~calm  BY <1>1, WorkerGoing DEF WorkerOK
<1>4. WorkerOK(w)'  BY <1>1, <1>2, <1>3, WorkerGoing DEF WorkerOK
<1>5. \A u \in Threads \ {w} : pc'[u] = pc[u] /\ call'[u] = call[u] /\ joined'[u] = joined[u]
  BY <1>1, <1>2, WorkerGoing DEF TypeOK
<1> QED  BY <1>2, <1>3, <1>4, <1>5 DEF WorkerShape

LEMMA WorkerScans ==
  ASSUME SimulatorAssumption, TypeOK, CallFits, NEW w \in Workers, WorkerOK(w),
         ScanSteps(w) \/ WorkerSteps(w)
  PROVE  WorkerShape(w)
<1> USE DEF StopPlaces, AfterJoin, ClosePlaces, StartPlaces, NotRunning, runtime
<1>0. w \notin Clients  BY DEF SimulatorAssumption
<1>1. PICK from \in {"lockScan", "scan", "inScan", "diagnostics", "loop", "callback", "fault",
                     "faultStop", "lastFault"},
           to \in {"lockScan", "scan", "inScan", "diagnostics", "loop", "callback", "fault",
                   "faultStop", "lastFault", "dead"} :
        Go(w, from, to)
  BY <1>0 DEF ScanSteps, LockForScan, ScanRaises, NativeScan, ScanReturns, ScanFaults,
         ReadDiagnostics, Raise, WorkerSteps, Loop, NextScan, Fault, FaultStop, LastFault
<1>2. UNCHANGED <<worker, calm, open, joined>>
  BY DEF ScanSteps, LockForScan, ScanRaises, NativeScan, ScanReturns, ScanFaults,
         ReadDiagnostics, Raise, WorkerSteps, Loop, NextScan, Fault, FaultStop, LastFault
<1>3. /\ mode' = mode \/ (mode' = "FAULTED" /\ pc[w] = "inScan")
      /\ state' \in {state, "FAULTED"}
  BY DEF ScanSteps, LockForScan, ScanRaises, NativeScan, ScanReturns, ScanFaults,
         ReadDiagnostics, Raise, WorkerSteps, Loop, NextScan, Fault, FaultStop, LastFault, Go
<1>4. pc[w] = from  BY <1>1, WorkerGoing
<1>5. WorkerOK(w)'  BY <1>1, <1>2, <1>4, WorkerGoing DEF WorkerOK
<1>6. \A u \in Threads \ {w} : pc'[u] = pc[u] /\ call'[u] = call[u] /\ joined'[u] = joined[u]
  BY <1>1, <1>2, WorkerGoing
<1> QED  BY <1>1, <1>2, <1>3, <1>4, <1>5, <1>6 DEF WorkerShape

LEMMA WorkerMoves ==
  ASSUME SimulatorAssumption, TypeOK, CallFits, NEW w \in Workers, WorkerOK(w),
         Step(w) \/ Call(w)
  PROVE  WorkerShape(w)
<1>1. ~StartSteps(w)
  BY DEF WorkerOK, StartPlaces, StartSteps, ModeForStart, ClearStop, NewWorker, StartWorker, Go
<1>2. w \notin Clients  BY DEF SimulatorAssumption
<1>3. CASE Call(w)
  <2>1. CallStop(w)  BY <1>2, <1>3 DEF Call
  <2>2. Enter(w, "callback", "setStop", "stop") /\ ~calm  BY <1>2, <2>1 DEF CallStop
  <2>3. /\ pc[w] = "callback" /\ pc'[w] = "setStop" /\ call'[w] = "stop"
        /\ \A u \in Threads \ {w} : pc'[u] = pc[u] /\ call'[u] = call[u]
    BY <2>2 DEF Enter, TypeOK, Threads
  <2>4. UNCHANGED <<mode, open, state, worker, joined, calm>>  BY <2>1 DEF CallStop, runtime
  <2>5. WorkerOK(w)'
    BY <2>2, <2>3, <2>4 DEF WorkerOK, StartPlaces, ClosePlaces
  <2> QED  BY <2>2, <2>3, <2>4, <2>5 DEF WorkerShape, NotRunning
<1> QED  BY <1>1, <1>3, WorkerSets, WorkerStops, WorkerScans DEF Step

\* So what a worker does leaves a single client's part of the invariant alone.
LEMMA WorkerAlone ==
  ASSUME SimulatorAssumption, NEW c \in Clients, Alone(c), NEW w \in Workers,
         Step(w) \/ Call(w), Serialized'
  PROVE  Alone(c)'
<1>1. WorkerShape(w)  BY WorkerMoves DEF Alone, Serialized
<1>2. c \in Threads \ {w} /\ w \in Threads  BY DEF Threads, SimulatorAssumption
<1>3. /\ pc'[c] = pc[c] /\ call'[c] = call[c] /\ joined'[c] = joined[c]
      /\ worker' = worker /\ calm' = calm /\ open' = open
  BY <1>1, <1>2 DEF WorkerShape
<1>4. ASSUME NEW v \in Workers
      PROVE  WorkerOK(v)' /\ (Alive(v)' => Alive(v))
  <2>1. CASE v = w
    BY <1>1, <2>1 DEF WorkerShape, Alive
  <2>2. CASE v # w
    <3>1. pc'[v] = pc[v] /\ call'[v] = call[v] /\ WorkerOK(v)
      BY <1>1, <2>2 DEF WorkerShape, Threads, Alone
    <3> QED  BY <1>3, <3>1 DEF WorkerOK, Alive
  <2> QED  BY <2>1, <2>2
<1>5. NoneAlive => NoneAlive'  BY <1>4 DEF NoneAlive
<1>6. ClientOK(c)'  BY <1>3, <1>5 DEF ClientOK, Alone
<1>7. ModeOK(c)'
  <2> SUFFICES ASSUME calm PROVE ModeOK(c)'  BY <1>3 DEF ModeOK
  <2>1. state' \in {state, "FAULTED"} /\ (mode' = mode \/ (mode' = "FAULTED" /\ pc[w] = "inScan"))
    BY <1>1 DEF WorkerShape
  <2>2. pc[c] = "setState" => pc[w] # "inScan"
    BY <1>2, OneScan DEF Holding, Alone
  <2>3. Wanted(c)' = Wanted(c)  BY <1>3 DEF Wanted
  <2> QED  BY <1>3, <2>1, <2>2, <2>3 DEF ModeOK, Alone, Active
<1>8. \A v \in Workers : Alive(v)' => v = worker'  BY <1>3, <1>4 DEF Alone
<1> QED  BY <1>4, <1>6, <1>7, <1>8 DEF Alone

-----------------------------------------------------------------------------
(* One client at a time: the client.                                       *)

\* A client's step from one place to another that makes and starts no thread:
\* what remains to show is the client's own part.
LEMMA ClientAlone ==
  ASSUME SimulatorAssumption, NEW c \in Clients, Alone(c), Serialized',
         \A w \in Workers : pc'[w] = pc[w] /\ call'[w] = call[w],
         worker' = worker, calm' = calm,
         (NoneAlive' <=> NoneAlive) => ClientOK(c)',
         ModeOK(c)'
  PROVE  Alone(c)'
<1>1. \A w \in Workers : WorkerOK(w)' /\ (Alive(w)' <=> Alive(w))
  BY DEF Alone, WorkerOK, Alive
<1>2. NoneAlive' <=> NoneAlive  BY <1>1 DEF NoneAlive
<1> QED  BY <1>1, <1>2 DEF Alone

LEMMA ClientSets ==
  ASSUME SimulatorAssumption, NEW c \in Clients, Alone(c), SetModeSteps(c), Serialized'
  PROVE  Alone(c)'
<1> USE DEF StartPlaces, ClosePlaces, AfterJoin
<1>0. TypeOK /\ CallFits /\ c \in Threads /\ ClientOK(c) /\ ModeOK(c) /\ Home(c) = "idle"
  BY DEF Alone, Serialized, Threads, Home
<1>1. UNCHANGED <<worker, calm, open, joined>>
  BY DEF SetModeSteps, LockForMode, SetModeRaises, SetRuntimeMode, SetState, EmitMode, runtime
<1>2. CASE LockForMode(c)
  <2>1. Go(c, "lockMode", "setMode") /\ UNCHANGED <<mode, state>>  BY <1>2 DEF LockForMode, runtime
  <2>2. ModeOK(c)'  BY <1>0, <1>1, <2>1, ClientGoing DEF ModeOK
  <2>3. (NoneAlive' <=> NoneAlive) => ClientOK(c)'  BY <1>0, <1>1, <2>1, ClientGoing DEF ClientOK
  <2> QED  BY <1>0, <1>1, <2>1, <2>2, <2>3, ClientGoing, ClientAlone
<1>3. CASE SetModeRaises(c)
  <2>1. Go(c, "setMode", "idle") /\ UNCHANGED <<mode, state>>  BY <1>0, <1>3 DEF SetModeRaises, runtime
  <2>2. ModeOK(c)'  BY <1>0, <1>1, <2>1, ClientGoing DEF ModeOK
  <2>3. (NoneAlive' <=> NoneAlive) => ClientOK(c)'  BY <1>0, <1>1, <2>1, ClientGoing DEF ClientOK
  <2> QED  BY <1>0, <1>1, <2>1, <2>2, <2>3, ClientGoing, ClientAlone
<1>4. CASE SetRuntimeMode(c)
  <2>1. Go(c, "setMode", "setState") /\ mode' = Wanted(c) /\ state' = state
    BY <1>4 DEF SetRuntimeMode
  <2>2. Wanted(c)' = Wanted(c)  BY <1>0, <2>1, ClientGoing DEF Wanted
  <2>3. ModeOK(c)'  BY <1>0, <1>1, <2>1, <2>2, ClientGoing DEF ModeOK
  <2>4. (NoneAlive' <=> NoneAlive) => ClientOK(c)'  BY <1>0, <1>1, <2>1, ClientGoing DEF ClientOK
  <2> QED  BY <1>0, <1>1, <2>1, <2>3, <2>4, ClientGoing, ClientAlone
<1>5. CASE SetState(c)
  <2>1. mode' = mode /\ pc[c] = "setState" /\ (calm => mode = Wanted(c))
    BY <1>0, <1>5 DEF SetState, Go, runtime, ModeOK
  <2>2. CASE Go(c, "setState", "emitMode") /\ state' = StateOf[Wanted(c)] /\ Wanted(c) \in DOMAIN StateOf
    <3>1. mode = "RUN" /\ calm => state' = "RUNNING"  BY <2>1, <2>2 DEF StateOf
    <3>2. call[c] \in {"stop", "close"} /\ calm => mode = "PROGRAM"  BY <2>1 DEF Wanted
    <3>3. ModeOK(c)'  BY <1>0, <1>1, <2>1, <2>2, <3>1, <3>2, ClientGoing DEF ModeOK, Active
    <3>4. (NoneAlive' <=> NoneAlive) => ClientOK(c)'  BY <1>0, <1>1, <2>2, ClientGoing DEF ClientOK
    <3> QED  BY <1>0, <1>1, <2>2, <3>3, <3>4, ClientGoing, ClientAlone
  <2>3. CASE Go(c, "setState", "idle") /\ state' = state /\ Wanted(c) \notin DOMAIN StateOf
    <3>1. calm => mode # "RUN"  BY <2>1, <2>3 DEF StateOf
    <3>2. ModeOK(c)'  BY <1>0, <1>1, <2>1, <2>3, <3>1, ClientGoing DEF ModeOK
    <3>3. (NoneAlive' <=> NoneAlive) => ClientOK(c)'  BY <1>0, <1>1, <2>3, ClientGoing DEF ClientOK
    <3> QED  BY <1>0, <1>1, <2>3, <3>2, <3>3, ClientGoing, ClientAlone
  <2> QED  BY <1>0, <1>5, <2>2, <2>3 DEF SetState
<1>6. CASE EmitMode(c)
  <2>1. UNCHANGED <<mode, state>> /\ pc[c] = "emitMode"  BY <1>6 DEF EmitMode, Go, runtime
  <2>2. PICK to : /\ Go(c, "emitMode", to) /\ to \in {"clear", "stopped", "idle"}
                  /\ to = "clear" => call[c] = "start"
                  /\ to = "stopped" => call[c] \in {"stop", "close"}
    BY <1>0, <1>6 DEF EmitMode, AfterMode
  <2>3. ModeOK(c)'  BY <1>0, <1>1, <2>1, <2>2, ClientGoing DEF ModeOK
  <2>4. (NoneAlive' <=> NoneAlive) => ClientOK(c)'  BY <1>0, <1>1, <2>2, ClientGoing DEF ClientOK
  <2> QED  BY <1>0, <1>1, <2>2, <2>3, <2>4, ClientGoing, ClientAlone
<1> QED  BY <1>2, <1>3, <1>4, <1>5, <1>6 DEF SetModeSteps

LEMMA ClientStarts ==
  ASSUME SimulatorAssumption, NEW c \in Clients, Alone(c), StartSteps(c), Serialized'
  PROVE  Alone(c)'
<1> USE DEF StartPlaces, ClosePlaces, AfterJoin
<1>0. TypeOK /\ CallFits /\ c \in Threads /\ ClientOK(c) /\ ModeOK(c) /\ Home(c) = "idle"
  BY DEF Alone, Serialized, Threads, Home
<1>1. UNCHANGED <<mode, open, state, calm, joined>>
  BY DEF StartSteps, ModeForStart, ClearStop, NewWorker, StartWorker, runtime
<1>2. CASE ModeForStart(c) \/ ClearStop(c)
  <2>1. worker' = worker  BY <1>2 DEF ModeForStart, ClearStop
  <2>2. PICK from, to : /\ Go(c, from, to) /\ from \in {"readMode", "clear"}
                        /\ to \in {"idle", "clear", "lockMode", "newWorker"}
    BY <1>0, <1>2 DEF ModeForStart, ClearStop
  <2>3. call[c] = "start"  BY <1>0, <2>2, ClientGoing DEF ClientOK
  <2>4. ModeOK(c)'  BY <1>0, <1>1, <2>2, <2>3, ClientGoing DEF ModeOK
  <2>5. (NoneAlive' <=> NoneAlive) => ClientOK(c)'
    BY <1>0, <1>1, <2>1, <2>2, <2>3, ClientGoing DEF ClientOK
  <2> QED  BY <1>0, <1>1, <2>1, <2>2, <2>4, <2>5, ClientGoing, ClientAlone
<1>3. CASE NewWorker(c)
  <2>1. PICK w \in Workers : /\ pc[c] = "newWorker" /\ worker' = w /\ call' = call
                             /\ pc' = [pc EXCEPT ![c] = "startWorker", ![w] = "new"]
    BY <1>3 DEF NewWorker
  <2>2. call[c] = "start" /\ NoneAlive  BY <1>0, <2>1 DEF ClientOK
  <2>3. pc'[c] = "startWorker"
    BY <1>0, <2>1 DEF TypeOK, Threads, SimulatorAssumption
  <2>4. \A v \in Workers : /\ pc'[v] = pc[v] \/ pc'[v] = "new"
                           /\ ~Alive(v)' /\ WorkerOK(v)
    BY <1>0, <2>1, <2>2 DEF TypeOK, Threads, Alive, NotRunning, NoneAlive, SimulatorAssumption, Alone
  <2>5. \A v \in Workers : WorkerOK(v)'
    BY <1>1, <2>1, <2>4 DEF WorkerOK, StopPlaces
  <2>6. ClientOK(c)'  BY <2>1, <2>2, <2>3, <2>4 DEF ClientOK, NoneAlive
  <2>7. ModeOK(c)'  BY <1>0, <1>1, <2>1, <2>2, <2>3 DEF ModeOK
  <2> QED  BY <2>4, <2>5, <2>6, <2>7 DEF Alone
<1>4. CASE StartWorker(c)
  <2>1. /\ pc[c] = "startWorker" /\ worker' = worker
        /\ pc' = [pc EXCEPT ![c] = "idle", ![worker] = IF @ = "new" THEN "loop" ELSE @]
        /\ call' = [call EXCEPT ![c] = "none"]
    BY <1>0, <1>4 DEF StartWorker
  <2>2. call[c] = "start" /\ NoneAlive /\ worker # c
    BY <1>0, <2>1 DEF ClientOK, TypeOK, SimulatorAssumption
  <2>3. pc'[c] = "idle" /\ call'[c] = "none"
    BY <1>0, <2>1, <2>2 DEF TypeOK
  <2>4. \A v \in Workers : /\ pc'[v] = pc[v] \/ (pc'[v] = "loop" /\ v = worker)
                           /\ call'[v] = call[v] /\ WorkerOK(v)
    BY <1>0, <2>1 DEF TypeOK, Threads, SimulatorAssumption, Alone
  <2>5. \A v \in Workers : WorkerOK(v)' /\ (Alive(v)' => v = worker)
    BY <1>1, <2>2, <2>4 DEF WorkerOK, StopPlaces, Alive, NoneAlive
  <2>6. ClientOK(c)'  BY <2>3 DEF ClientOK
  <2>7. ModeOK(c)'  BY <1>0, <1>1, <2>1, <2>3 DEF ModeOK
  <2> QED  BY <2>1, <2>5, <2>6, <2>7 DEF Alone
<1> QED  BY <1>2, <1>3, <1>4 DEF StartSteps

LEMMA ClientStops ==
  ASSUME SimulatorAssumption, NEW c \in Clients, Alone(c), StopSteps(c), Serialized'
  PROVE  Alone(c)'
<1> USE DEF StartPlaces, ClosePlaces, AfterJoin
<1>0. TypeOK /\ CallFits /\ c \in Threads /\ ClientOK(c) /\ ModeOK(c) /\ Home(c) = "idle"
  BY DEF Alone, Serialized, Threads, Home
<1>1. UNCHANGED <<worker, calm>>
  BY DEF StopSteps, SetStop, Join, Joined, ModeForStop, Stopped, CloseRuntime, CloseState
<1>2. CASE SetStop(c)
  <2>1. Go(c, "setStop", "join") /\ UNCHANGED <<mode, open, state>>  BY <1>2 DEF SetStop, runtime
  <2>2. ModeOK(c)'  BY <1>0, <1>1, <2>1, ClientGoing DEF ModeOK
  <2>3. (NoneAlive' <=> NoneAlive) => ClientOK(c)'  BY <1>0, <1>1, <2>1, ClientGoing DEF ClientOK
  <2> QED  BY <1>0, <1>1, <2>1, <2>2, <2>3, ClientGoing, ClientAlone
<1>3. CASE Join(c)
  <2>1. /\ UNCHANGED <<mode, open, state>> /\ pc[c] = "join"
    BY <1>3 DEF Join, Go, runtime
  <2>2. call[c] \in {"stop", "close"}  BY <1>0, <2>1 DEF CallFits
  <2>3. PICK to : /\ Go(c, "join", to) /\ to \in {"stopMode", "joining", "idle"}
                  /\ to = "stopMode" => worker \in {None, c}
                  /\ to = "joining" => joined' = [joined EXCEPT ![c] = worker]
    BY <1>0, <1>3 DEF Join
  <2>4. worker \in {None, c} => NoneAlive
    BY <1>0 DEF Alone, NoneAlive, SimulatorAssumption
  <2>5. to = "joining" => joined'[c] = worker
    BY <1>0, <2>3 DEF TypeOK
  <2>6. ModeOK(c)'  BY <1>0, <1>1, <2>1, <2>3, ClientGoing DEF ModeOK
  <2>7. (NoneAlive' <=> NoneAlive) => ClientOK(c)'
    BY <1>0, <1>1, <2>2, <2>3, <2>4, <2>5, ClientGoing DEF ClientOK
  <2> QED  BY <1>0, <1>1, <2>3, <2>6, <2>7, ClientGoing, ClientAlone
<1>4. CASE Joined(c)
  <2>1. /\ Go(c, "joining", "stopMode") /\ UNCHANGED <<mode, open, state>>
        /\ joined[c] \notin AliveWorkers \/ ~calm
    BY <1>4 DEF Joined, runtime
  <2>2. pc[c] = "joining" /\ joined[c] = worker  BY <1>0, <2>1, ClientGoing DEF ClientOK
  <2>3. calm => NoneAlive
    BY <2>1, <2>2 DEF Alone, NoneAlive, AliveWorkers
  <2>4. ModeOK(c)'  BY <1>0, <1>1, <2>1, ClientGoing DEF ModeOK
  <2>5. (NoneAlive' <=> NoneAlive) => ClientOK(c)'
    BY <1>0, <1>1, <2>1, <2>2, <2>3, ClientGoing DEF ClientOK, CallFits
  <2> QED  BY <1>0, <1>1, <2>1, <2>4, <2>5, ClientGoing, ClientAlone
<1>5. CASE ModeForStop(c)
  <2>1. UNCHANGED <<mode, open, state, joined>> /\ pc[c] = "stopMode"
    BY <1>5 DEF ModeForStop, Go, runtime
  <2>2. PICK to : /\ Go(c, "stopMode", to) /\ to \in {"idle", "lockMode", "stopped"}
                  /\ to = "stopped" => mode \notin Active
    BY <1>0, <1>5 DEF ModeForStop
  <2>3. ModeOK(c)'  BY <1>0, <1>1, <2>1, <2>2, ClientGoing DEF ModeOK
  <2>4. (NoneAlive' <=> NoneAlive) => ClientOK(c)'
    BY <1>0, <1>1, <2>1, <2>2, ClientGoing DEF ClientOK
  <2> QED  BY <1>0, <1>1, <2>2, <2>3, <2>4, ClientGoing, ClientAlone
<1>6. CASE Stopped(c)
  <2>1. /\ UNCHANGED <<mode, open, joined>> /\ pc[c] = "stopped"
        /\ call[c] \in {"stop", "close"}
    BY <1>0, <1>6 DEF Stopped, Go, runtime, CallFits
  <2>2. PICK to : /\ Go(c, "stopped", to) /\ to \in {"idle", "closeRuntime"}
                  /\ to = "closeRuntime" => call[c] = "close"
    BY <1>0, <1>6 DEF Stopped
  <2>3. ModeOK(c)'  BY <1>0, <1>1, <2>1, <2>2, ClientGoing DEF ModeOK, Active
  <2>4. (NoneAlive' <=> NoneAlive) => ClientOK(c)'
    BY <1>0, <1>1, <2>1, <2>2, ClientGoing DEF ClientOK
  <2> QED  BY <1>0, <1>1, <2>2, <2>3, <2>4, ClientGoing, ClientAlone
<1>7. CASE CloseRuntime(c)
  <2>1. /\ Go(c, "closeRuntime", "closeState") /\ mode' = "PROGRAM" /\ open' = FALSE
        /\ UNCHANGED <<state, joined>>
    BY <1>7 DEF CloseRuntime
  <2>2. ModeOK(c)'  BY <1>0, <1>1, <2>1, ClientGoing DEF ModeOK, Active
  <2>3. (NoneAlive' <=> NoneAlive) => ClientOK(c)'  BY <1>0, <1>1, <2>1, ClientGoing DEF ClientOK
  <2> QED  BY <1>0, <1>1, <2>1, <2>2, <2>3, ClientGoing, ClientAlone
<1>8. CASE CloseState(c)
  <2>1. Go(c, "closeState", "idle") /\ UNCHANGED <<mode, open, joined>> /\ pc[c] = "closeState"
    BY <1>0, <1>8 DEF CloseState, runtime, Go
  <2>2. call[c] = "close"  BY <1>0, <2>1 DEF ClientOK
  <2>3. ModeOK(c)'  BY <1>0, <1>1, <2>1, <2>2, ClientGoing DEF ModeOK, Active
  <2>4. (NoneAlive' <=> NoneAlive) => ClientOK(c)'  BY <1>0, <1>1, <2>1, ClientGoing DEF ClientOK
  <2> QED  BY <1>0, <1>1, <2>1, <2>3, <2>4, ClientGoing, ClientAlone
<1> QED  BY <1>2, <1>3, <1>4, <1>5, <1>6, <1>7, <1>8 DEF StopSteps

LEMMA ClientScans ==
  ASSUME SimulatorAssumption, NEW c \in Clients, Alone(c), ScanSteps(c), Serialized'
  PROVE  Alone(c)'
<1> USE DEF StartPlaces, ClosePlaces, AfterJoin
<1>0. TypeOK /\ CallFits /\ c \in Threads /\ ClientOK(c) /\ ModeOK(c)
  BY DEF Alone, Serialized, Threads
<1>1. /\ UNCHANGED <<worker, calm, open, state, joined>>
      /\ mode' \in {mode, "FAULTED"}
  BY DEF ScanSteps, LockForScan, ScanRaises, NativeScan, ScanReturns, ScanFaults,
         ReadDiagnostics, Raise, runtime
<1>2. PICK from, to :
        /\ Go(c, from, to)
        /\ from \in {"lockScan", "scan", "inScan", "diagnostics"}
        /\ to \in {"scan", "inScan", "diagnostics", "idle"}
  BY DEF ScanSteps, LockForScan, ScanRaises, NativeScan, ScanReturns, ScanFaults,
         ReadDiagnostics, Raise
<1>3. ModeOK(c)'  BY <1>0, <1>1, <1>2, ClientGoing DEF ModeOK, Active
<1>4. (NoneAlive' <=> NoneAlive) => ClientOK(c)'
  BY <1>0, <1>1, <1>2, ClientGoing DEF ClientOK
<1> QED  BY <1>0, <1>1, <1>2, <1>3, <1>4, ClientGoing, ClientAlone

LEMMA ClientCalls ==
  ASSUME SimulatorAssumption, NEW c \in Clients, Alone(c), Call(c), Serialized'
  PROVE  Alone(c)'
<1> USE DEF StartPlaces, ClosePlaces, AfterJoin
<1>0. TypeOK /\ CallFits /\ c \in Threads /\ ClientOK(c) /\ ModeOK(c)
  BY DEF Alone, Serialized, Threads
<1>1. UNCHANGED <<worker, calm, open, state, mode, joined>>
  BY DEF Call, CallStop, CallStart, CallClose, CallScan, CallSetMode, runtime
<1>2. PICK to, k :
        /\ Enter(c, "idle", to, k)
        /\ \/ to = "readMode" /\ k = "start" /\ worker \notin AliveWorkers
           \/ to = "setStop" /\ k \in {"stop", "close"}
           \/ to = "lockMode" /\ k \in Modes
           \/ to = "lockScan" /\ k = "scan"
  BY DEF Call, CallStop, CallStart, CallClose, CallScan, CallSetMode
<1>3. to = "readMode" => NoneAlive
  BY <1>2 DEF Alone, NoneAlive, AliveWorkers
<1>4. ModeOK(c)'  BY <1>0, <1>1, <1>2, ClientEntering DEF ModeOK
<1>5. (NoneAlive' <=> NoneAlive) => ClientOK(c)'
  BY <1>0, <1>1, <1>2, <1>3, ClientEntering DEF ClientOK, Modes
<1> QED  BY <1>0, <1>1, <1>2, <1>4, <1>5, ClientEntering, ClientAlone

LEMMA AloneStep ==
  ASSUME SimulatorAssumption, NEW c, Clients = {c}, Alone(c), [Next]_vars, Serialized'
  PROVE  Alone(c)'
<1>1. CASE UNCHANGED vars
  BY <1>1 DEF vars, runtime, Alone, WorkerOK, ClientOK, ModeOK, Alive, NoneAlive, Wanted
<1>2. ASSUME NEW t \in Threads, Step(t) \/ Call(t)  PROVE Alone(c)'
  <2>1. CASE t \in Workers
    BY <1>2, <2>1, WorkerAlone
  <2>2. CASE t = c /\ t \notin Workers
    BY <1>2, <2>2, ClientSets, ClientStarts, ClientStops, ClientScans, ClientCalls DEF Step
  <2> QED  BY <2>1, <2>2 DEF Threads
<1> QED  BY <1>1, <1>2 DEF Next

LEMMA AloneInit ==
  ASSUME SimulatorAssumption, NEW c, Clients = {c}, Init
  PROVE  Alone(c)
<1>1. Serialized  BY InitSerialized
<1>2. pc[c] = "idle" /\ call[c] = "none"  BY DEF Init, Threads
<1>3. \A w \in Workers : pc[w] = "unused" /\ call[w] = "none"
  BY DEF Init, Threads, SimulatorAssumption
<1>4. \A w \in Workers : WorkerOK(w) /\ ~Alive(w)
  BY <1>3 DEF WorkerOK, Alive, NotRunning, StartPlaces, ClosePlaces, StopPlaces, AfterJoin
<1>5. ClientOK(c)  BY <1>2 DEF ClientOK, StartPlaces, ClosePlaces
<1>6. ModeOK(c)  BY <1>2 DEF ModeOK, Init, ClosePlaces
<1> QED  BY <1>1, <1>4, <1>5, <1>6 DEF Alone

LEMMA AloneHolds ==
  ASSUME NEW CONSTANT c, Clients = {c}
  PROVE  Spec => []Alone(c)
<1>1. Init => Alone(c)  BY AloneInit, SimulatorAssumption
<1>2. Alone(c) /\ Serialized' /\ [Next]_vars => Alone(c)'  BY AloneStep, SimulatorAssumption
<1> QED  BY <1>1, <1>2, SerializedHolds, PTL DEF Spec

\* A single client, whatever its subscribers do and however its joins end, has
\* at most one worker.
THEOREM OneWorkerForOneClient ==
  ASSUME NEW CONSTANT c, Clients = {c}
  PROVE  Spec => []OneWorker
<1>1. Alone(c) => OneWorker
  <2> SUFFICES ASSUME Alone(c) PROVE OneWorker  OBVIOUS
  <2>1. AliveWorkers = {} \/ AliveWorkers = {worker}  BY DEF Alone, AliveWorkers
  <2>2. Cardinality({}) = 0  BY FS_EmptySet
  <2>3. Cardinality({worker}) = 1  BY FS_Singleton
  <2> QED  BY <2>1, <2>2, <2>3 DEF OneWorker
<1> QED  BY <1>1, AloneHolds, PTL

\* A stop or a close of a single client leaves no worker behind, if no worker
\* outlasts its join.
THEOREM StopsLeaveNoWorker ==
  ASSUME NEW CONSTANT c, Clients = {c}
  PROVE  Spec => []StopLeavesNoWorker
<1>1. Alone(c) => StopLeavesNoWorker
  <2> SUFFICES ASSUME Alone(c), calm, pc[c] \in {"stopped", "closeRuntime", "closeState"}
               PROVE  AliveWorkers = {}
    BY DEF StopLeavesNoWorker
  <2>1. call[c] \in {"stop", "close"}
    BY DEF Alone, ClientOK, Serialized, CallFits, Threads, ClosePlaces
  <2>2. NoneAlive  BY <2>1 DEF Alone, ClientOK, AfterJoin, ClosePlaces
  <2> QED  BY <2>2 DEF NoneAlive, AliveWorkers
<1> QED  BY <1>1, AloneHolds, PTL

\* Between the calls of a single client a runtime in RUN is never reported as
\* at rest, if no worker outlasts a join.
THEOREM RunsAreReported ==
  ASSUME NEW CONSTANT c, Clients = {c}
  PROVE  Spec => []RunIsReported
<1>1. Alone(c) => RunIsReported  BY DEF Alone, ModeOK, RunIsReported
<1> QED  BY <1>1, AloneHolds, PTL
=============================================================================
