----------------------------- MODULE RsmSupervisor -----------------------------
(***************************************************************************)
(* ControllerSupervisor in scada/supervisor.py, one controller's part of   *)
(* the registry it fills (scada/registry.py), and the shutdown of the      *)
(* service around them (scada/service.py).                                 *)
(*                                                                         *)
(* run is a task of the event loop: between two awaits it is one step, and *)
(* the registry's lock, under which nothing awaits, is always free.  A     *)
(* cancelled task gets its exception at the await it is in.  An answer     *)
(* that is there already may swallow it (asyncio.wait_for before Python    *)
(* 3.12, and pyproject.toml asks for 3.11).                                *)
(***************************************************************************)
EXTENDS Integers, Functions

CONSTANTS
  Programs,          \* what the controller may run
  Manifest,          \* program by program, the tag that each runtime id names
  AttemptLimits,     \* how many failures in a row it may be set to take: 0 if
                     \* reconnecting is off, Unlimited if maximum_attempts is 0
  Unlimited,
  Sequences,         \* source sequences of updates; 0 is none
  NoProgram,
  ConnectionResets   \* whether connections end in errors, too

ASSUME SupervisorAssumption ==
  /\ DOMAIN Manifest = Programs /\ NoProgram \notin Programs
  /\ \A p \in Programs : IsInjective(Manifest[p]) /\ DOMAIN Manifest[p] \subseteq Int
  /\ AttemptLimits \subseteq Nat \cup {Unlimited} /\ Unlimited \notin Int
  /\ Sequences \subseteq Nat /\ ConnectionResets \in BOOLEAN

VARIABLES
  limit,       \* config.reconnect
  controller,  \* whether it answers, in time and as the one configured, and
               \* what it runs
  link,        \* the client's connection
  ctl,         \* state: the ControllerState
  run,         \* where the task is
  attempts,    \* attempt
  stopping,    \* _stop
  cancelled,   \* the task has a cancellation to take
  installed,   \* program_hash
  tags,        \* the registry's tags of this controller
  runtimeIds,  \* its runtime ids: <<program, id>> to tag
  shutdown     \* how far TagBrokerService.close is

taskVars == <<link, ctl, run, attempts, stopping, cancelled>>
registryVars == <<installed, tags, runtimeIds>>
brokerVars == <<limit, controller, taskVars, registryVars, shutdown>>

ControllerStates ==
  {"DISCONNECTED", "CONNECTING", "NEGOTIATING", "SYNCHRONIZING", "ONLINE", "RECONNECTING",
   "FAULTED", "STOPPING", "CLOSED"}
Awaits == {"begin", "connecting", "negotiating", "informing", "resting", "heartbeat", "backoff", "closing"}
Requests == {"connecting", "negotiating", "informing", "heartbeat"}
Levels == {"GOOD", "UNCERTAIN", "STALE", "BAD"}

BrokerTypeOK ==
  /\ limit \in AttemptLimits /\ controller \in [up : BOOLEAN, program : Programs]
  /\ link \in {"none", "open", "eof", "reset", "closed"}
  /\ ctl \in ControllerStates /\ run \in Awaits \cup {"over"}
  /\ attempts \in Nat /\ stopping \in BOOLEAN /\ cancelled \in BOOLEAN
  /\ installed \in Programs \cup {NoProgram}
  /\ \A t \in DOMAIN tags :
       tags[t] \in [program : Programs, id : Int, level : Levels, sequence : Sequences \cup {0}]
  /\ \A k \in DOMAIN runtimeIds : k[1] \in Programs /\ runtimeIds[k] \in DOMAIN tags
  /\ shutdown \in {"no", "gathering", "closing", "flushing", "done", "raised"}

BrokerInit ==
  /\ limit \in AttemptLimits /\ controller \in [up : {FALSE}, program : Programs]
  /\ link = "none" /\ ctl = "DISCONNECTED" /\ run = "begin"
  /\ attempts = 0 /\ stopping = FALSE /\ cancelled = FALSE
  /\ installed = NoProgram /\ tags = <<>> /\ runtimeIds = <<>>
  /\ shutdown = "no"

-----------------------------------------------------------------------------
(* The registry.                                                           *)

IdsOf(p) == {<<p, i>> : i \in DOMAIN Manifest[p]}
IdOf(p, t) == CHOOSE i \in DOMAIN Manifest[p] : Manifest[p][i] = t
Entry(p, t) == [program |-> p, id |-> IdOf(p, t), level |-> "UNCERTAIN", sequence |-> 0]

TagsAfterUntouched(p) ==
  [t \in DOMAIN tags \cup Range(Manifest[p]) |->
     IF t \in Range(Manifest[p]) THEN Entry(p, t) ELSE tags[t]]

\* replace_manifest: the tags known so far become uncertain, and those of the
\* program take their places or join them.
TagsAfter(p) ==
  [t \in DOMAIN tags \cup Range(Manifest[p]) |->
     IF t \in Range(Manifest[p]) THEN Entry(p, t) ELSE [tags[t] EXCEPT !.level = "UNCERTAIN"]]

KeptAll(p) == DOMAIN runtimeIds
\* The ids that stay: those of no tag of this controller.
Kept(p) == DOMAIN runtimeIds \ {<<tags[t].program, tags[t].id>> : t \in DOMAIN tags}

ReplaceManifest(p) ==
  /\ tags' = TagsAfter(p)
  /\ runtimeIds' = [k \in Kept(p) \cup IdsOf(p) |->
                      IF k \in IdsOf(p) THEN Manifest[p][k[2]] ELSE runtimeIds[k]]

\* update, by whoever reads the controller.  An unknown id raises, an old
\* sequence number is passed over.
Update(k, n) ==
  /\ k \in DOMAIN runtimeIds
  /\ n = 0 \/ n > tags[runtimeIds[k]].sequence
  /\ tags' = [tags EXCEPT ![runtimeIds[k]].level = "GOOD", ![runtimeIds[k]].sequence = n]
  /\ UNCHANGED <<controller, taskVars, installed, runtimeIds, shutdown>>

UpdateMistyped(k) ==
  /\ k \in DOMAIN runtimeIds
  /\ tags' = [tags EXCEPT ![runtimeIds[k]].level = "BAD"]
  /\ UNCHANGED <<controller, taskVars, installed, runtimeIds, shutdown>>

AllStale == [t \in DOMAIN tags |-> [tags[t] EXCEPT !.level = "STALE"]]

-----------------------------------------------------------------------------
(* The task.                                                               *)

\* ALLOWED_TRANSITIONS, as far as transition is called.
Allowed(to) ==
  CASE to = "CONNECTING"    -> ctl \in {"DISCONNECTED", "RECONNECTING"}
    [] to = "NEGOTIATING"   -> ctl = "CONNECTING"
    [] to = "SYNCHRONIZING" -> ctl = "NEGOTIATING"

GivesUp == IF limit = Unlimited THEN FALSE ELSE attempts + 1 > limit
Counted == IF limit = Unlimited \/ GivesUp THEN attempts ELSE attempts + 1

HandledInPlace ==
  /\ tags' = IF ctl = "ONLINE" THEN AllStale ELSE tags
  /\ attempts' = Counted
  /\ IF GivesUp THEN ctl' = "FAULTED" /\ run' = "closing"
     ELSE ctl' = ctl /\ run' = "backoff"
  /\ UNCHANGED <<stopping, installed, runtimeIds>>

\* The handler of everything that goes wrong.  It takes no account of a stop.
Handled ==
  /\ tags' = IF ctl = "ONLINE" THEN AllStale ELSE tags
  /\ attempts' = Counted
  /\ IF GivesUp THEN ctl' = "FAULTED" /\ run' = "closing"
     ELSE ctl' = "RECONNECTING" /\ run' = "backoff"
  /\ UNCHANGED <<stopping, installed, runtimeIds>>

\* The head of the outer loop: a new client, whatever became of the old one.
EnterLoopAnyway ==
  IF ~Allowed("CONNECTING") THEN Handled /\ UNCHANGED link
  ELSE /\ ctl' = "CONNECTING" /\ run' = "connecting" /\ link' = "none"
       /\ UNCHANGED <<attempts, stopping, registryVars>>
EnterLoop ==
  IF stopping
    THEN run' = "closing" /\ UNCHANGED <<link, ctl, attempts, stopping, registryVars>>
  ELSE IF ~Allowed("CONNECTING") THEN Handled /\ UNCHANGED link
  ELSE /\ ctl' = "CONNECTING" /\ run' = "connecting" /\ link' = "none"
       /\ UNCHANGED <<attempts, stopping, registryVars>>

\* Nothing but the cancellation ends a sleep that has been cancelled.
Wakes ==
  /\ run \in {"begin", "backoff"} /\ ~cancelled /\ EnterLoop
  /\ UNCHANGED <<controller, cancelled, shutdown>>

Advance(state, next) ==
  IF Allowed(state) THEN ctl' = state /\ run' = next /\ UNCHANGED <<attempts, stopping, registryVars>>
  ELSE Handled

\* connect, with its HELLO.
Connected ==
  /\ run = "connecting" /\ controller.up
  /\ link' = "open" /\ cancelled' = FALSE
  /\ Advance("NEGOTIATING", "negotiating")
  /\ UNCHANGED <<controller, shutdown>>

\* A connection whose HELLO fails stays open, and is forgotten.
ConnectFails ==
  /\ run = "connecting" /\ ~controller.up
  /\ link' \in {"none", "open"} /\ cancelled' = FALSE
  /\ Handled
  /\ UNCHANGED <<controller, shutdown>>

Answers == controller.up /\ link = "open"

\* get_capabilities has its answer; the program's information is asked for.
CapabilitiesKnown ==
  /\ run = "negotiating" /\ Answers /\ cancelled' = FALSE /\ run' = "informing"
  /\ UNCHANGED <<controller, link, ctl, attempts, stopping, registryVars, shutdown>>

\* The program's information has come.
Synchronized ==
  /\ run = "informing" /\ Answers /\ cancelled' = FALSE
  /\ IF Allowed("SYNCHRONIZING")
       THEN /\ installed' = controller.program /\ ReplaceManifest(controller.program)
            /\ ctl' = "ONLINE" /\ run' = "resting" /\ attempts' = 0
            /\ UNCHANGED stopping
       ELSE Handled
  /\ UNCHANGED <<controller, link, shutdown>>

\* No answer, or another controller's.
RequestFails ==
  /\ run \in {"negotiating", "informing", "heartbeat"} /\ ~Answers /\ cancelled' = FALSE
  /\ Handled
  /\ UNCHANGED <<controller, link, shutdown>>

HeartbeatDue ==
  /\ run = "resting" /\ ~cancelled /\ run' = "heartbeat"
  /\ UNCHANGED <<controller, link, ctl, attempts, stopping, cancelled, registryVars, shutdown>>

\* The program the diagnostics may tell of is not looked at.
HeartbeatAnswered ==
  /\ run = "heartbeat" /\ Answers /\ cancelled' = FALSE
  /\ run' = IF stopping THEN "closing" ELSE "resting"
  /\ UNCHANGED <<controller, link, ctl, attempts, stopping, registryVars, shutdown>>

\* In a request or a sleep of the inner loop the cancellation breaks the outer
\* one; elsewhere it ends the task.
TakesCancellation ==
  /\ cancelled /\ run # "over" /\ cancelled' = FALSE
  /\ run' = IF run \in Requests \cup {"resting"} THEN "closing" ELSE "over"
  /\ link' \in CASE run = "connecting" -> {"none", "open"}
                 [] run = "closing" /\ link \in {"open", "eof"} -> {"closed"}
                 [] OTHER -> {link}
  /\ UNCHANGED <<controller, ctl, attempts, stopping, registryVars, shutdown>>

\* Closing a connection that was lost to an error raises the error.
CloseRaises == link = "reset"
ClosedLink == IF link = "none" THEN "none" ELSE "closed"

TaskCloses ==
  /\ run = "closing" /\ ~cancelled /\ run' = "over"
  /\ IF CloseRaises THEN UNCHANGED <<link, ctl>> ELSE link' = ClosedLink /\ ctl' = "CLOSED"
  /\ UNCHANGED <<controller, attempts, stopping, cancelled, registryVars, shutdown>>

TaskSteps ==
  \/ Wakes \/ Connected \/ ConnectFails \/ CapabilitiesKnown \/ Synchronized \/ RequestFails
  \/ HeartbeatDue \/ HeartbeatAnswered \/ TakesCancellation \/ TaskCloses

-----------------------------------------------------------------------------
(* TagBrokerService.close: the supervisor's stop, then the historian's.    *)

StopCalled ==
  /\ shutdown = "no" /\ shutdown' = "gathering"
  /\ stopping' = TRUE /\ cancelled' = (run # "over")
  /\ ctl' = IF ctl = "CLOSED" THEN ctl ELSE "STOPPING"
  /\ UNCHANGED <<controller, link, run, attempts, registryVars>>

Gathered ==
  /\ shutdown = "gathering" /\ run = "over" /\ shutdown' = "closing"
  /\ UNCHANGED <<controller, taskVars, registryVars>>

\* What stop raises close raises: the historian is then not closed.
StopCloses ==
  /\ shutdown = "closing"
  /\ IF CloseRaises THEN shutdown' = "raised" /\ UNCHANGED <<link, ctl>>
     ELSE shutdown' = "flushing" /\ link' = ClosedLink /\ ctl' = "CLOSED"
  /\ UNCHANGED <<controller, run, attempts, stopping, cancelled, registryVars>>

HistorianFlushed ==
  /\ shutdown = "flushing" /\ shutdown' = "done"
  /\ UNCHANGED <<controller, taskVars, registryVars>>

ShutdownSteps == Gathered \/ StopCloses \/ HistorianFlushed

-----------------------------------------------------------------------------
(* The controller, and the connection while it does not answer.            *)

ControllerFails ==
  /\ controller.up /\ controller' = [up |-> FALSE, program |-> controller.program]
  /\ UNCHANGED <<taskVars, registryVars, shutdown>>

ControllerReturns(p) ==
  /\ ~controller.up /\ controller' = [up |-> TRUE, program |-> p]
  /\ UNCHANGED <<taskVars, registryVars, shutdown>>

ProgramChanges(p) ==
  /\ controller.up /\ p # controller.program /\ controller' = [up |-> TRUE, program |-> p]
  /\ UNCHANGED <<taskVars, registryVars, shutdown>>

ConnectionEnds ==
  /\ ~controller.up
  /\ \/ link = "open" /\ link' = "eof"
     \/ ConnectionResets /\ link \in {"open", "eof"} /\ link' = "reset"
  /\ UNCHANGED <<controller, ctl, run, attempts, stopping, cancelled, registryVars, shutdown>>

BrokerSteps ==
  \/ TaskSteps \/ StopCalled \/ ShutdownSteps
  \/ \E k \in DOMAIN runtimeIds : UpdateMistyped(k) \/ \E n \in Sequences : Update(k, n)
  \/ ControllerFails \/ ConnectionEnds
  \/ \E p \in Programs : ControllerReturns(p) \/ ProgramChanges(p)

BrokerNext == limit' = limit /\ BrokerSteps

BrokerSpec == BrokerInit /\ [][BrokerNext]_brokerVars

\* The event loop runs every task that can run.
BrokerFair == WF_brokerVars(limit' = limit /\ TaskSteps) /\ WF_brokerVars(limit' = limit /\ ShutdownSteps)

-----------------------------------------------------------------------------
\* A runtime id resolves exactly when the program that was installed last has
\* it, and to that program's tag: whatever was installed and lost before, and
\* whatever tags and ids the programs share.  That the controller still runs
\* that program is another matter, and BrokerPromises is about it.
RuntimeIdsCurrent ==
  IF installed = NoProgram THEN runtimeIds = <<>>
  ELSE runtimeIds = [k \in IdsOf(installed) |-> Manifest[installed][k[2]]]

\* A controller shown as ONLINE has no tag shown as STALE: neither one that the
\* new program has, nor one that only an earlier program had.
OnlineIsFresh == ctl = "ONLINE" => \A t \in DOMAIN tags : tags[t].level # "STALE"

\* Once the controller stays up, the supervisor gets it ONLINE and keeps it
\* there, from whatever state the failures left it in; unless it is stopped, or
\* has given up, which it does only if it has a limit.
BackOnline ==
  <>[]controller.up =>
    <>[](ctl = "ONLINE" \/ stopping \/ (limit # Unlimited /\ run \in {"closing", "over"}))

\* A stop ends the task and returns, also when the cancellation was swallowed;
\* it may raise.
StopEnds == stopping ~> (run = "over" /\ shutdown \in {"done", "raised"})
===============================================================================
