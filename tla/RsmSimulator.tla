----------------------------- MODULE RsmSimulator -----------------------------
(***************************************************************************)
(* The simulation worker of native/simulation.py over one NativeRuntime.   *)
(* Client threads call start, stop, close, set_mode and scan; start makes  *)
(* a thread that scans until the stop event is set.  A step is what a      *)
(* thread does between two points where another may come in: the lock of   *)
(* the simulator covers set_mode and scan only, the lock of the runtime    *)
(* every single call of it, and the event, the worker and the state are    *)
(* plain attributes.                                                       *)
(*                                                                         *)
(* The runtime is what RsmLifecycle says of it, with a program that stays  *)
(* loaded until close.  Time is left out: a wait between scans may end at  *)
(* once, which is what a late scan does.                                   *)
(***************************************************************************)
EXTENDS Naturals, FiniteSets

CONSTANTS
  Clients,        \* threads that call the simulator
  Workers,        \* thread objects that start can make
  None            \* the value of an attribute or a lock nobody holds

ASSUME SimulatorAssumption ==
  /\ Clients \cap Workers = {}
  /\ None \notin Clients \cup Workers

VARIABLES
  mode,       \* the mode of the runtime
  open,       \* the runtime is not closed
  state,      \* the state the simulator reports
  lock,       \* holder of the simulator's lock
  stopEvent,  \* the stop event
  worker,     \* the attribute _worker
  lastScan,   \* the thread whose scan the runtime's diagnostics tell of
  pc,         \* where each thread is
  call,       \* the call each thread is in, a set_mode named by its mode
  joined,     \* the thread a thread is joining
  calm        \* for good: no scan or subscriber outlasts a join, none stops the simulator

runtime == <<mode, open>>
vars == <<runtime, state, lock, stopEvent, worker, lastScan, pc, call, joined, calm>>

Threads == Clients \cup Workers
Modes == {"PROGRAM", "RUN", "TEST", "FAULTED"}
Active == {"RUN", "TEST"}
StateOf == [PROGRAM |-> "PROGRAM", RUN |-> "RUNNING", TEST |-> "TESTING"]

\* Thread objects that are not running: never made, made, and ended.
NotRunning == {"unused", "new", "dead"}
Alive(w) == pc[w] \notin NotRunning
AliveWorkers == {w \in Workers : Alive(w)}

Locations == NotRunning \cup
  {"idle", "lockMode", "setMode", "setState", "emitMode", "readMode", "clear", "newWorker",
   "startWorker", "setStop", "join", "joining", "stopMode", "stopped", "closeRuntime",
   "closeState", "loop", "lockScan", "scan", "inScan", "diagnostics", "callback", "fault",
   "faultStop", "lastFault"}

TypeOK ==
  /\ mode \in Modes /\ open \in BOOLEAN /\ calm \in BOOLEAN
  /\ state \in {"PROGRAM", "RUNNING", "TESTING", "STOPPED", "FAULTED", "CLOSED"}
  /\ lock \in Threads \cup {None} /\ stopEvent \in BOOLEAN
  /\ worker \in Workers \cup {None} /\ lastScan \in Threads \cup {None}
  /\ pc \in [Threads -> Locations]
  /\ call \in [Threads -> Modes \cup {"none", "start", "stop", "close", "scan"}]
  /\ joined \in [Threads -> Workers \cup {None}]

\* Where an exception, or the end of a call, leaves a thread: a client is back
\* in its own code; what a subscriber raises ends in _emit, in the scan loop.
Home(t) == IF t \in Clients THEN "idle" ELSE "loop"

Init ==
  /\ calm \in BOOLEAN
  /\ mode = "PROGRAM" /\ open = TRUE /\ state = "PROGRAM"
  /\ lock = None /\ stopEvent = FALSE /\ worker = None /\ lastScan = None
  /\ pc = [t \in Threads |-> IF t \in Clients THEN "idle" ELSE "unused"]
  /\ call = [t \in Threads |-> "none"]
  /\ joined = [t \in Threads |-> None]

\* A thread goes from one place to another; at home its call is over.
Go(t, from, to) ==
  /\ pc[t] = from /\ pc' = [pc EXCEPT ![t] = to]
  /\ call' = IF to = Home(t) THEN [call EXCEPT ![t] = "none"] ELSE call

Enter(t, from, to, c) ==
  /\ pc[t] = from /\ pc' = [pc EXCEPT ![t] = to] /\ call' = [call EXCEPT ![t] = c]

\* No call of the runtime is under way: its own lock is free.
RuntimeFree == \A t \in Threads : pc[t] # "inScan"

\* The two locks are taken and left.
AcquireNothing(t) == UNCHANGED lock
Acquire(t) == lock = None /\ lock' = t
Release == lock' = None

-----------------------------------------------------------------------------
(* set_mode.                                                               *)

CallSetMode(c, m) ==
  /\ Enter(c, "idle", "lockMode", m)
  /\ UNCHANGED <<runtime, state, lock, stopEvent, worker, lastScan, joined, calm>>

\* start and stop call set_mode as well: what they ask for, and where they go on.
Wanted(t) ==
  CASE call[t] = "start" -> "RUN" [] call[t] \in {"stop", "close"} -> "PROGRAM" [] OTHER -> call[t]
AfterMode(t) ==
  CASE call[t] = "start" -> "clear" [] call[t] \in {"stop", "close"} -> "stopped" [] OTHER -> "idle"

LockForMode(t) ==
  /\ Go(t, "lockMode", "setMode") /\ Acquire(t)
  /\ UNCHANGED <<runtime, state, stopEvent, worker, lastScan, joined, calm>>

RefusedIfFaulted(m) == mode = "FAULTED" /\ m # "PROGRAM"

\* A closed runtime refuses everything, a faulted one every mode but PROGRAM.
Refused(m) == ~open \/ (mode = "FAULTED" /\ m # "PROGRAM")

SetModeRaises(t) ==
  /\ RuntimeFree /\ Refused(Wanted(t))
  /\ Go(t, "setMode", Home(t)) /\ Release
  /\ UNCHANGED <<runtime, state, stopEvent, worker, lastScan, joined, calm>>

SetRuntimeMode(t) ==
  /\ RuntimeFree /\ ~Refused(Wanted(t))
  /\ Go(t, "setMode", "setState") /\ mode' = Wanted(t)
  /\ UNCHANGED <<open, state, lock, stopEvent, worker, lastScan, joined, calm>>

StateIsMode(t) ==
  /\ Release /\ Go(t, "setState", "emitMode") /\ state' = Wanted(t)
  /\ UNCHANGED <<runtime, stopEvent, worker, lastScan, joined, calm>>

\* FAULTED has no entry in the table of states: the look-up raises.
SetState(t) ==
  /\ Release
  /\ IF Wanted(t) \in DOMAIN StateOf
       THEN Go(t, "setState", "emitMode") /\ state' = StateOf[Wanted(t)]
       ELSE Go(t, "setState", Home(t)) /\ UNCHANGED state
  /\ UNCHANGED <<runtime, stopEvent, worker, lastScan, joined, calm>>

\* The event carries the runtime's mode, which a closed runtime refuses to tell.
EmitMode(t) ==
  /\ RuntimeFree /\ Go(t, "emitMode", IF open THEN AfterMode(t) ELSE Home(t))
  /\ UNCHANGED <<runtime, state, lock, stopEvent, worker, lastScan, joined, calm>>

SetModeSteps(t) ==
  \/ LockForMode(t) \/ SetModeRaises(t) \/ SetRuntimeMode(t) \/ SetState(t) \/ EmitMode(t)

-----------------------------------------------------------------------------
(* start.                                                                  *)

StartAnyway(c) ==
  /\ Enter(c, "idle", "readMode", "start")
  /\ UNCHANGED <<runtime, state, lock, stopEvent, worker, lastScan, joined, calm>>

\* A worker that still runs makes start return at once.
CallStart(c) ==
  /\ worker \notin AliveWorkers
  /\ Enter(c, "idle", "readMode", "start")
  /\ UNCHANGED <<runtime, state, lock, stopEvent, worker, lastScan, joined, calm>>

\* The caller's mode is kept when it is RUN or TEST, otherwise RUN is selected.
ModeForStart(t) ==
  /\ RuntimeFree
  /\ Go(t, "readMode", IF ~open THEN Home(t) ELSE IF mode \in Active THEN "clear" ELSE "lockMode")
  /\ UNCHANGED <<runtime, state, lock, stopEvent, worker, lastScan, joined, calm>>

ClearStop(t) ==
  /\ Go(t, "clear", "newWorker") /\ stopEvent' = FALSE
  /\ UNCHANGED <<runtime, state, lock, worker, lastScan, joined, calm>>

\* A thread object nobody refers to any more is as good as one never made.
Fresh(w) == ~Alive(w) /\ w # worker /\ \A t \in Threads : joined[t] # w

NewWorker(t) == \E w \in Workers :
  /\ Fresh(w) /\ pc[t] = "newWorker"
  /\ worker' = w /\ pc' = [pc EXCEPT ![t] = "startWorker", ![w] = "new"]
  /\ UNCHANGED <<runtime, state, lock, stopEvent, lastScan, call, joined, calm>>

\* The attribute is read again: it may hold another caller's thread, and a
\* thread starts once.
StartWorker(t) ==
  /\ pc[t] = "startWorker"
  /\ pc' = [pc EXCEPT ![t] = Home(t), ![worker] = IF @ = "new" THEN "loop" ELSE @]
  /\ call' = [call EXCEPT ![t] = "none"]
  /\ UNCHANGED <<runtime, state, lock, stopEvent, worker, lastScan, joined, calm>>

StartSteps(t) == ModeForStart(t) \/ ClearStop(t) \/ NewWorker(t) \/ StartWorker(t)

-----------------------------------------------------------------------------
(* stop and close.                                                         *)

\* From a client, or from a subscriber that the worker calls.
CallStop(t) ==
  /\ Enter(t, IF t \in Clients THEN "idle" ELSE "callback", "setStop", "stop")
  /\ t \in Workers => ~calm
  /\ UNCHANGED <<runtime, state, lock, stopEvent, worker, lastScan, joined, calm>>

CallClose(c) ==
  /\ Enter(c, "idle", "setStop", "close")
  /\ UNCHANGED <<runtime, state, lock, stopEvent, worker, lastScan, joined, calm>>

SetStop(t) ==
  /\ Go(t, "setStop", "join") /\ stopEvent' = TRUE
  /\ UNCHANGED <<runtime, state, lock, worker, lastScan, joined, calm>>

\* Nobody joins itself; a thread that has not started cannot be joined.
Join(t) ==
  /\ \/ worker \in {None, t} /\ Go(t, "join", "stopMode") /\ UNCHANGED joined
     \/ /\ worker \notin {None, t}
        /\ IF pc[worker] = "new" THEN Go(t, "join", Home(t)) /\ UNCHANGED joined
           ELSE Go(t, "join", "joining") /\ joined' = [joined EXCEPT ![t] = worker]
  /\ UNCHANGED <<runtime, state, lock, stopEvent, worker, lastScan, calm>>

JoinedAtOnce(t) ==
  /\ Go(t, "joining", "stopMode") /\ joined' = [joined EXCEPT ![t] = None]
  /\ UNCHANGED <<runtime, state, lock, stopEvent, worker, lastScan, calm>>

Joined(t) ==
  /\ pc[t] = "joining" /\ (joined[t] \notin AliveWorkers \/ ~calm)
  /\ Go(t, "joining", "stopMode") /\ joined' = [joined EXCEPT ![t] = None]
  /\ UNCHANGED <<runtime, state, lock, stopEvent, worker, lastScan, calm>>

StopKeepsMode(t) ==
  /\ RuntimeFree /\ Go(t, "stopMode", IF open THEN "stopped" ELSE Home(t))
  /\ UNCHANGED <<runtime, state, lock, stopEvent, worker, lastScan, joined, calm>>

ModeForStop(t) ==
  /\ RuntimeFree
  /\ Go(t, "stopMode", IF ~open THEN Home(t) ELSE IF mode \in Active THEN "lockMode" ELSE "stopped")
  /\ UNCHANGED <<runtime, state, lock, stopEvent, worker, lastScan, joined, calm>>

Stopped(t) ==
  /\ Go(t, "stopped", IF call[t] = "close" THEN "closeRuntime" ELSE Home(t)) /\ state' = "STOPPED"
  /\ UNCHANGED <<runtime, lock, stopEvent, worker, lastScan, joined, calm>>

CloseRuntime(t) ==
  /\ RuntimeFree /\ Go(t, "closeRuntime", "closeState")
  /\ open' = FALSE /\ mode' = "PROGRAM"
  /\ UNCHANGED <<state, lock, stopEvent, worker, lastScan, joined, calm>>

CloseState(t) ==
  /\ Go(t, "closeState", Home(t)) /\ state' = "CLOSED"
  /\ UNCHANGED <<runtime, lock, stopEvent, worker, lastScan, joined, calm>>

StopSteps(t) ==
  \/ SetStop(t) \/ Join(t) \/ Joined(t) \/ ModeForStop(t) \/ Stopped(t)
  \/ CloseRuntime(t) \/ CloseState(t)

-----------------------------------------------------------------------------
(* scan, by a client or in the worker's loop.                              *)

CallScan(c) ==
  /\ Enter(c, "idle", "lockScan", "scan")
  /\ UNCHANGED <<runtime, state, lock, stopEvent, worker, lastScan, joined, calm>>

LockForScan(t) ==
  /\ Go(t, "lockScan", "scan") /\ Acquire(t)
  /\ UNCHANGED <<runtime, state, stopEvent, worker, lastScan, joined, calm>>

\* An exception ends a client's call, and the loop of a worker.
Raise(t, from) == Go(t, from, IF t \in Clients THEN "idle" ELSE "fault") /\ Release

ScanRaisesLocked(t) ==
  /\ RuntimeFree /\ (~open \/ mode \notin Active)
  /\ Go(t, "scan", IF t \in Clients THEN "idle" ELSE "fault")
  /\ UNCHANGED <<runtime, state, lock, stopEvent, worker, lastScan, joined, calm>>

ScanRaises(t) ==
  /\ RuntimeFree /\ (~open \/ mode \notin Active) /\ Raise(t, "scan")
  /\ UNCHANGED <<runtime, state, stopEvent, worker, lastScan, joined, calm>>

NativeScan(t) ==
  /\ RuntimeFree /\ open /\ mode \in Active /\ Go(t, "scan", "inScan")
  /\ UNCHANGED <<runtime, state, lock, stopEvent, worker, lastScan, joined, calm>>

ScanReturns(t) ==
  /\ Go(t, "inScan", "diagnostics") /\ lastScan' = t
  /\ UNCHANGED <<runtime, state, lock, stopEvent, worker, joined, calm>>

ScanFaults(t) ==
  /\ Raise(t, "inScan") /\ mode' = "FAULTED"
  /\ UNCHANGED <<open, state, stopEvent, worker, lastScan, joined, calm>>

\* The diagnostics are read in a call of their own, which a close can overtake.
ReadDiagnostics(t) ==
  /\ RuntimeFree
  /\ IF open THEN Go(t, "diagnostics", IF t \in Clients THEN "idle" ELSE "callback") /\ Release
     ELSE Raise(t, "diagnostics")
  /\ UNCHANGED <<runtime, state, stopEvent, worker, lastScan, joined, calm>>

ScanSteps(t) ==
  \/ LockForScan(t) \/ ScanRaises(t) \/ NativeScan(t) \/ ScanReturns(t) \/ ScanFaults(t)
  \/ ReadDiagnostics(t)

-----------------------------------------------------------------------------
(* The worker's loop.                                                      *)

LoopForEver(w) ==
  /\ Go(w, "loop", "lockScan")
  /\ UNCHANGED <<runtime, state, lock, stopEvent, worker, lastScan, joined, calm>>

Loop(w) ==
  /\ Go(w, "loop", IF stopEvent THEN "dead" ELSE "lockScan")
  /\ UNCHANGED <<runtime, state, lock, stopEvent, worker, lastScan, joined, calm>>

NextScan(w) ==
  /\ Go(w, "callback", "loop")
  /\ UNCHANGED <<runtime, state, lock, stopEvent, worker, lastScan, joined, calm>>

Fault(w) ==
  /\ Go(w, "fault", "faultStop") /\ state' = "FAULTED"
  /\ UNCHANGED <<runtime, lock, stopEvent, worker, lastScan, joined, calm>>

FaultStop(w) ==
  /\ Go(w, "faultStop", "lastFault") /\ stopEvent' = TRUE
  /\ UNCHANGED <<runtime, state, lock, worker, lastScan, joined, calm>>

LastFault(w) ==
  /\ RuntimeFree /\ Go(w, "lastFault", "dead")
  /\ UNCHANGED <<runtime, state, lock, stopEvent, worker, lastScan, joined, calm>>

WorkerSteps(w) == Loop(w) \/ NextScan(w) \/ Fault(w) \/ FaultStop(w) \/ LastFault(w)

-----------------------------------------------------------------------------
\* What a thread does once it is inside a call.
Step(t) ==
  \/ SetModeSteps(t) \/ StartSteps(t) \/ StopSteps(t) \/ ScanSteps(t)
  \/ (t \in Workers /\ WorkerSteps(t))

Call(t) ==
  \/ CallStop(t)
  \/ /\ t \in Clients
     /\ CallStart(t) \/ CallClose(t) \/ CallScan(t) \/ (\E m \in Modes : CallSetMode(t, m))

Next == \E t \in Threads : Step(t) \/ Call(t)

Spec == Init /\ [][Next]_vars

\* Threads run: the operating system schedules every thread that can go on.
\* No fairness between threads that want the same lock is assumed.
FairSpec == Spec /\ \A t \in Threads : WF_vars(Step(t))

-----------------------------------------------------------------------------
(* Properties.                                                             *)

Lifecycle == INSTANCE RsmLifecycle WITH
  mode <- mode, loaded <- open, scanning <- ~RuntimeFree

\* Whatever the threads do, the native runtime sees one call at a time, each
\* one the lifecycle allows: no thread changes the mode or closes the runtime
\* under another's scan, and no scan starts outside RUN and TEST.
RuntimeKeepsLifecycle == [][Lifecycle!Next]_(Lifecycle!vars)

\* The diagnostics that a scan hands to its caller and to the subscribers are
\* those of that scan and never of another thread's scan after it.
DiagnosticsOfOwnScan == \A t \in Threads : pc[t] = "diagnostics" => lastScan = t

\* At most one thread scans periodically: start makes no second worker while
\* the first one still runs.
OneWorker == Cardinality(AliveWorkers) <= 1

\* A stop or a close that has come past a join that did not give up leaves no
\* worker behind.
StopLeavesNoWorker == calm => \A c \in Clients :
  pc[c] \in {"stopped", "closeRuntime", "closeState"} => AliveWorkers = {}

\* A runtime that drives the outputs is never reported as at rest: between
\* calls, mode RUN goes with RUNNING, or with the FAULTED of a worker's end.
RunIsReported ==
  calm /\ open /\ mode = "RUN" /\ (\A c \in Clients : pc[c] = "idle") => state \in {"RUNNING", "FAULTED"}

\* A stop or close that has been called returns to its caller, without the help
\* of a join that gives up.
StopReturns == calm => \A c \in Clients : (pc[c] = "setStop") ~> (pc[c] = "idle")

\* Once the clients leave a closed simulator alone no worker stays: one that
\* outlasted the join of close ends at its next call of the runtime.
CloseEndsWorkers ==
  <>[](\A c \in Clients : pc[c] = "idle") => (~open ~> AliveWorkers = {})

\* The simulator's lock is held exactly by the thread that is between taking
\* and leaving it, and a thread's place fits the call it is in.
Holding == {"setMode", "setState", "scan", "inScan", "diagnostics"}
Locking == \A t \in Threads : pc[t] \in Holding <=> lock = t
CallFits == \A t \in Threads :
  /\ pc[t] = "readMode" => call[t] = "start"
  /\ pc[t] \in {"setStop", "join", "joining", "stopMode", "stopped"} => call[t] \in {"stop", "close"}
  /\ pc[t] \in {"lockMode", "setMode", "setState", "emitMode"} =>
       call[t] \in Modes \cup {"start", "stop", "close"}

\* What no step of any thread disturbs: with it a scan and its diagnostics, a
\* change of mode and its state, are never torn by another locked call.
Serialized == TypeOK /\ CallFits /\ Locking /\ DiagnosticsOfOwnScan
=============================================================================
